---- MODULE Spec2Model ----
(***************************************************************************)
(* Document ingestion and retrieval pipeline of the query service:         *)
(* the fetch loop of PDFService.extract_text_from_url, the check-then-     *)
(* ingest sequence of QueryController.process_document_queries, and the    *)
(* persistence and vector stores they write.                               *)
(***************************************************************************)
EXTENDS Integers, Sequences, FiniteSets, TLC

(***************************************************************************)
(* Program constants                                                       *)
(***************************************************************************)
\* pdf_service.py:55  max_attempts = 3
max_attempts == 3
\* pdf_service.py:26  Retry(total=3, ...)
retry_total == 3

\* pdf_service.py:28  status_forcelist=[429, 500, 502, 503, 504]
status_forcelist == {429, 500, 502, 503, 504}

(***************************************************************************)
(* Fetch loop: what one call of session.get can hand back to the loop.     *)
(* A status of status_forcelist never reaches raise_for_status: the        *)
(* mounted adapter re-sends the request retry_total times and then raises  *)
(* RetryError, which only the generic "except Exception" clause matches.   *)
(***************************************************************************)
\* statuses the origin can answer with (one representative per class)
Statuses == {200, 403, 404, 410, 503}

\* the outcome of session.get + raise_for_status for a final response status
StatusOutcome(status) ==
    IF status \in status_forcelist THEN "RetryError"
    ELSE IF status >= 400 THEN "HTTPError"
    ELSE "ok"

\* number of requests the adapter puts on the wire in one session.get: the
\* first one plus one per retry; transport errors and forcelist statuses are
\* re-sent until retry_total is used up
WireRequests(outcome, retried) ==
    IF outcome \in {"RetryError", "ConnectionError", "Timeout"}
    THEN 1 + retry_total
    ELSE 1 + retried

\* a backoff that starts at 2 s
Backoff_from2(a) == 2 ^ (a + 1)

\* pdf_service.py:76,82,97  time.sleep(2 ** attempt)
Backoff(a) == 2 ^ a

\* a handler without the 403 branch
HTTPErrorKind_no403(status) ==
    IF status = 404 THEN "FileNotFoundError" ELSE "HTTPError"

\* pdf_service.py:84-91  the error raised for an HTTPError response
HTTPErrorKind(status) ==
    IF status = 404 THEN "FileNotFoundError"
    ELSE IF status = 403 THEN "PermissionError"
    ELSE "HTTPError"

\* a handler that reports every exhausted fetch as a connection failure
ExhaustedKind_allConnection(outcome) ==
    IF outcome \in {"ConnectionError", "Timeout"} THEN "ConnectionError"
    ELSE outcome

\* pdf_service.py:72-82,93-97  the error raised when the last attempt fails
ExhaustedKind(outcome) ==
    IF outcome = "ConnectionError" THEN "ConnectionError"
    ELSE IF outcome = "Timeout" THEN "TimeoutError"
    ELSE outcome

\* the documents requested of the ingestion, and those requested of the
\* whole request handler (two of them fetchable)
Urls == {"https://a", "ftp://c"}
RequestUrls == {"https://a", "https://b"}

\* a validation that lets every URL through
ValidScheme_any(url) == TRUE

\* pdf_service.py:50  pdf_url.startswith(('http://', 'https://'))
ValidScheme(url) == url \in {"https://a", "https://b"}

(***************************************************************************)
(* Bounds of the model                                                     *)
(***************************************************************************)
\* server processes handling requests side by side
NumProcs == 2
\* requests over the life of the system
MaxRequests == 2
\* chunks a fetched document yields at most
MaxChunks == 2

Procs == 1..NumProcs

\* pinecone_service.py:90, database_service.py:150  [:1000]
text_limit == 1000

\* length of a chunk: "chunk0" is a single sentence longer than a chunk may
\* otherwise get, the others are ordinary chunks
TextLen(text) == IF text = "chunk0" THEN 1200 ELSE 900

\* text[:n]: the leading characters of the text, all of them when it has
\* no more than n
Prefix(text, n) ==
    [of |-> text, len |-> IF TextLen(text) <= n THEN TextLen(text) ELSE n]

\* the chunk lists chunk_text can return for the fetched text
ChunkText(n) == [k \in 1..n |-> IF k = 1 THEN "chunk0" ELSE IF k = 2 THEN "chunk1" ELSE "chunk2"]
ChunkLists == {ChunkText(n) : n \in 0..MaxChunks}

VARIABLES
    fpc,           \* position in extract_text_from_url
    furl,          \* pdf_url
    attempt,       \* loop variable of "for attempt in range(max_attempts)"
    attemptsMade,  \* calls of session.get so far
    requestsSent,  \* requests that reached the endpoint so far
    slept,         \* seconds spent in time.sleep by the loop
    waits,         \* the sleeps of the loop, in order
    history,       \* outcome of each attempt, in order
    responses,     \* status code each attempt ended with (0: no response)
    fError         \* exception the call raised ("none": not raised)

fvars == <<fpc, furl, attempt, attemptsMade, requestsSent, slept, waits, history, responses, fError>>

VARIABLES
    documents,     \* rows of table "documents", in insertion order
    document_chunks, \* rows of table "document_chunks", in insertion order
    vectors,       \* the vector index: the stored vectors with their metadata
    index,         \* per server process: PineconeService.index is not None
    pc,            \* per server process: position in process_document_queries
    pdf_url,       \* per server process: the request's document URL
    document,      \* per server process: id of the resolved Document row (0: none)
    chunks,        \* per server process: result of chunk_text
    chunk_data,    \* per server process: ids returned by store_chunks
    chunk_index,   \* per server process: loop index i of _store_document_chunks
    observed,      \* per server process: what has_chunks answered
    ran,           \* per server process: the request has fetched the PDF
    afterSuccess,  \* per server process: the request began alone, after a
                   \* successful ingestion of its URL
    failedAt,      \* per server process: the position where the request raised
    cycles,        \* per URL: ingestion cycles that ran to completion
    nreq           \* requests begun so far

ivars == <<documents, document_chunks, vectors, index, pc, pdf_url, document, chunks,
           chunk_data, chunk_index, observed, ran, afterSuccess, failedAt, cycles, nreq>>

VARIABLES
    ctor,          \* position in PineconeService.__init__ ("ready": constructed)
    service,       \* the vector service answers calls ("up") or not ("down")
    index_exists,  \* the named index exists at the vector service
    created,       \* calls of create_index so far
    contacts,      \* calls of store_chunks / search_similar_chunks that went
                   \* to the vector service
    calls,         \* calls of store_chunks / search_similar_chunks so far
    issued,        \* ids store_chunks has generated so far
    collision,     \* store_chunks has generated an id a second time
    last           \* the last call of the component: arguments and result

pvars == <<ctor, service, index_exists, created, contacts, calls, issued, collision, last>>

VARIABLES
    authorization, \* per server process: the request's Authorization header
    questions,     \* per server process: the request's questions
    answers,       \* per server process: the list "answers" built so far
    query,         \* per server process: id of the current user_queries row
    relevant_chunks, \* per server process: result of search_similar_chunks
    answer_text,   \* per server process: result of generate_answer
    user_queries,  \* rows of table "user_queries", in insertion order
    answer_rows,   \* rows of table "answers", in insertion order
    answer_clauses \* rows of table "answer_clauses"

qvars == <<authorization, questions, answers, query, relevant_chunks, answer_text,
           user_queries, answer_rows, answer_clauses>>

VARIABLES
    tpc,           \* position in the text pipeline (extraction, cleaning, chunking)
    pages,         \* the parsed PDF: per page the text extract_text() yields, or "raise"
    page_num,      \* loop variable of "for page_num in range(len(pdf_reader.pages))"
    text,          \* the local "text" of extract_text_from_url, _clean_text, chunk_text
    terror,        \* the exception that ended the extraction
    sentences,     \* chunk_text: the list "sentences"
    sentence_num,  \* chunk_text: how many sentences the loop has consumed
    current_chunk, \* chunk_text: "current_chunk"
    text_chunks,   \* chunk_text: the list "chunks"
    overlap_len    \* PDFService.chunk_overlap: the configured overlap

tvars == <<tpc, pages, page_num, text, terror, sentences, sentence_num, current_chunk,
           text_chunks, overlap_len>>

xvars == <<pvars, qvars, tvars>>

vars == <<fvars, ivars, pvars, qvars, tvars>>

(***************************************************************************)
(* Strings.  A Python str is modelled run-length encoded: a sequence of    *)
(* runs [c, n, id, lo], n characters of class c.  Classes: "w" word        *)
(* characters (characters lo .. lo+n-1 of the word id, so that different   *)
(* words are different text), " " the space, "\n" other whitespace, "."    *)
(* the period, "!" the marks ! and ?, "@" a character outside              *)
(* [\w\s.,;:!?()-].  Adjacent runs that continue each other are one run.   *)
(***************************************************************************)
Run(c, n, id, lo) == [c |-> c, n |-> n, id |-> id, lo |-> lo]
Word(id, n) == Run("w", n, id, 0)
Spaces(n) == Run(" ", n, 0, 0)
Periods(n) == Run(".", n, 0, 0)

\* len(s)
RECURSIVE StrLen(_)
StrLen(s) == IF s = <<>> THEN 0 ELSE Head(s).n + StrLen(Tail(s))

\* run b continues run a
Continues(a, b) == a.c = b.c /\ (a.c = "w" => (a.id = b.id /\ b.lo = a.lo + a.n))

\* the encoding of a string is unique: no empty run, no run continuing the
\* one before it
RECURSIVE Canon(_)
Canon(s) ==
    IF s = <<>> THEN <<>>
    ELSE IF Head(s).n = 0 THEN Canon(Tail(s))
    ELSE LET rest == Canon(Tail(s)) IN
         IF rest # <<>> /\ Continues(Head(s), Head(rest))
         THEN <<[Head(s) EXCEPT !.n = @ + Head(rest).n]>> \o Tail(rest)
         ELSE <<Head(s)>> \o rest

\* a concatenation that keeps only its second argument
Concat_second(a, b) == Canon(b)

\* a + b
Concat(a, b) == Canon(a \o b)

\* s[k:] for 0 <= k
RECURSIVE Drop(_, _)
Drop(s, k) ==
    IF k <= 0 \/ s = <<>> THEN s
    ELSE IF Head(s).n <= k THEN Drop(Tail(s), k - Head(s).n)
    ELSE <<[Head(s) EXCEPT !.n = @ - k,
                           !.lo = IF Head(s).c = "w" THEN @ + k ELSE 0]>> \o Tail(s)

\* s[:k] for 0 <= k
RECURSIVE Take(_, _)
Take(s, k) ==
    IF k <= 0 \/ s = <<>> THEN <<>>
    ELSE IF Head(s).n <= k THEN <<Head(s)>> \o Take(Tail(s), k - Head(s).n)
    ELSE <<[Head(s) EXCEPT !.n = k]>>

\* s[-k:] for 0 < k
LastChars(s, k) == IF StrLen(s) <= k THEN s ELSE Drop(s, StrLen(s) - k)

IsSpace(run) == run.c \in {" ", "\n"}

\* s.strip()
RECURSIVE LStrip(_)
LStrip(s) == IF s # <<>> /\ IsSpace(Head(s)) THEN LStrip(Tail(s)) ELSE s
RECURSIVE RStrip(_)
RStrip(s) ==
    IF s # <<>> /\ IsSpace(s[Len(s)]) THEN RStrip(SubSeq(s, 1, Len(s) - 1)) ELSE s
Strip(s) == RStrip(LStrip(s))

\* s.find(' '): the offset of the first space, -1 when there is none
RECURSIVE FindSpace(_)
FindSpace(s) ==
    IF s = <<>> THEN -1
    ELSE IF Head(s).c = " " THEN 0
    ELSE LET r == FindSpace(Tail(s)) IN IF r = -1 THEN -1 ELSE Head(s).n + r

\* pdf_service.py:141  re.sub(r'\s+', ' ', text)
CollapseWhitespace(s) ==
    LET spaced == Canon([k \in DOMAIN s |-> IF IsSpace(s[k]) THEN Spaces(s[k].n) ELSE s[k]])
    IN  [k \in DOMAIN spaced |-> IF spaced[k].c = " " THEN Spaces(1) ELSE spaced[k]]

\* pdf_service.py:144  re.sub(r'[^\w\s.,;:!?()-]', '', text)
RemoveSpecial(s) == Canon(SelectSeq(s, LAMBDA run : run.c # "@"))

\* pdf_service.py:147  re.sub(r'\.{3,}', '...', text)
CollapsePeriods(s) ==
    [k \in DOMAIN s |-> IF s[k].c = "." /\ s[k].n >= 3 THEN Periods(3) ELSE s[k]]

\* pdf_service.py:138-149  _clean_text
clean_text(s) == Strip(CollapsePeriods(RemoveSpecial(CollapseWhitespace(s))))

\* re.split(r'[.!?]+', text): one marker between two pieces is enough, the
\* empty pieces are dropped by the caller
RECURSIVE Split(_)
Split(s) ==
    IF s = <<>> THEN << <<>> >>
    ELSE LET rest == Split(Tail(s)) IN
         IF Head(s).c \in {".", "!"} THEN << <<>> >> \o rest
         ELSE << <<Head(s)>> \o Head(rest) >> \o Tail(rest)

\* pdf_service.py:186-190  _split_into_sentences
split_into_sentences(s) ==
    SelectSeq([k \in DOMAIN Split(s) |-> Strip(Split(s)[k])], LAMBDA piece : piece # <<>>)

\* settings.py:44-45  CHUNK_SIZE, CHUNK_OVERLAP
chunk_size == 1000
chunk_overlap == 200

\* s[-k:] for 0 <= k: -0 is 0, so that s[-0:] is all of s
Suffix(s, k) == IF k = 0 THEN s ELSE LastChars(s, k)

\* pdf_service.py:192-204  _get_overlap_text
get_overlap_text(s) ==
    IF StrLen(s) <= overlap_len THEN s
    ELSE LET overlap == Suffix(s, overlap_len)
             space_index == FindSpace(overlap)
         IN  IF space_index # -1 THEN Strip(Drop(overlap, space_index)) ELSE overlap

\* the text pipeline is not running
TextIdle ==
    /\ tpc = "idle"
    /\ pages = <<>>
    /\ page_num = 0
    /\ text = <<>>
    /\ terror = "none"
    /\ sentences = <<>>
    /\ sentence_num = 0
    /\ current_chunk = <<>>
    /\ text_chunks = <<>>
    /\ overlap_len = chunk_overlap

\* no call of the vector component on record
NoCall ==
    [op |-> "none", handle |-> FALSE, call_ok |-> FALSE, document_id |-> 0,
     chunk_list |-> <<>>, ids |-> <<>>, matches |-> {}]

\* the vector component is constructed and has not been called
VectorIdle ==
    /\ ctor = "ready"
    /\ service = "up"
    /\ index_exists = TRUE
    /\ created = 0
    /\ contacts = 0
    /\ calls = 0
    /\ issued = {}
    /\ collision = FALSE
    /\ last = NoCall

\* the value of answer_text before generate_answer has returned
NoAnswer == [kind |-> "none", question |-> "none"]

\* no request has been received and the answer tables are empty; a header is
\* the sequence of its space-separated words, <<>> when it is missing
RequestIdle ==
    /\ authorization = [p \in Procs |-> <<>>]
    /\ questions = [p \in Procs |-> <<>>]
    /\ answers = [p \in Procs |-> <<>>]
    /\ query = [p \in Procs |-> 0]
    /\ relevant_chunks = [p \in Procs |-> {}]
    /\ answer_text = [p \in Procs |-> NoAnswer]
    /\ user_queries = <<>>
    /\ answer_rows = <<>>
    /\ answer_clauses = {}

\* extract_text_from_url is not running
FetchIdle ==
    /\ fpc = "start"
    /\ furl = "https://a"
    /\ attempt = 0
    /\ attemptsMade = 0
    /\ requestsSent = 0
    /\ slept = 0
    /\ waits = <<>>
    /\ history = <<>>
    /\ responses = <<>>
    /\ fError = "none"

\* state of the stores and of the server processes before any request
IngestIdle ==
    /\ documents = <<>>
    /\ document_chunks = <<>>
    /\ vectors = {}
    /\ pc = [p \in Procs |-> "idle"]
    /\ pdf_url = [p \in Procs |-> "none"]
    /\ document = [p \in Procs |-> 0]
    /\ chunks = [p \in Procs |-> <<>>]
    /\ chunk_data = [p \in Procs |-> <<>>]
    /\ chunk_index = [p \in Procs |-> 0]
    /\ observed = [p \in Procs |-> "none"]
    /\ ran = [p \in Procs |-> FALSE]
    /\ afterSuccess = [p \in Procs |-> FALSE]
    /\ failedAt = [p \in Procs |-> "none"]
    /\ cycles = [u \in Urls \cup RequestUrls |-> 0]
    /\ nreq = 0

FetchInit ==
    /\ TextIdle
    /\ IngestIdle
    /\ VectorIdle
    /\ RequestIdle
    /\ index = [p \in Procs |-> TRUE]
    /\ fpc = "start"
    /\ furl \in Urls
    /\ attempt = 0
    /\ attemptsMade = 0
    /\ requestsSent = 0
    /\ slept = 0
    /\ waits = <<>>
    /\ history = <<>>
    /\ responses = <<>>
    /\ fError = "none"

\* pdf_service.py:49-55  validate the URL, then enter the loop
ValidateUrl ==
    /\ fpc = "start"
    /\ IF ValidScheme(furl)
       THEN /\ fpc' = "get"
            /\ fError' = fError
       ELSE /\ fpc' = "raised"
            /\ fError' = "ValueError"
    /\ UNCHANGED <<furl, attempt, attemptsMade, requestsSent, slept, waits, history, responses>>
    /\ UNCHANGED <<ivars, xvars>>

\* the except clause that handles the outcome of one attempt
AfterAttempt(outcome, status) ==
    IF outcome = "ok"
    THEN /\ fpc' = "downloaded"
         /\ fError' = fError
    ELSE IF outcome = "HTTPError"
    THEN /\ fpc' = "raised"
         /\ fError' = HTTPErrorKind(status)
    ELSE IF attempt = max_attempts - 1
    THEN /\ fpc' = "raised"
         /\ fError' = ExhaustedKind(outcome)
    ELSE /\ fpc' = "sleep"
         /\ fError' = fError

\* pdf_service.py:57-97  one iteration: session.get, raise_for_status and
\* the except clause that matches
Attempt(outcome, status, retried) ==
    /\ fpc = "get"
    /\ attemptsMade' = attemptsMade + 1
    /\ requestsSent' = requestsSent + WireRequests(outcome, retried)
    /\ history' = Append(history, outcome)
    /\ responses' = Append(responses, status)
    /\ AfterAttempt(outcome, status)
    /\ UNCHANGED <<furl, attempt, slept, waits>>
    /\ UNCHANGED <<ivars, xvars>>

\* a response came back: its status decides the outcome
AttemptResponse ==
    \E status \in Statuses, retried \in 0..retry_total :
        Attempt(StatusOutcome(status), status, retried)

\* no response came back: connection error, timeout, anything else
AttemptNoResponse ==
    \E outcome \in {"ConnectionError", "Timeout", "Exception"}, retried \in 0..retry_total :
        Attempt(outcome, 0, retried)

\* pdf_service.py:76,82,97  time.sleep(2 ** attempt), then the next iteration
Sleep ==
    /\ fpc = "sleep"
    /\ slept' = slept + Backoff(attempt)
    /\ waits' = Append(waits, Backoff(attempt))
    /\ attempt' = attempt + 1
    /\ fpc' = "get"
    /\ UNCHANGED <<furl, attemptsMade, requestsSent, history, responses, fError>>
    /\ UNCHANGED <<ivars, xvars>>

FetchNext ==
    \/ ValidateUrl
    \/ AttemptResponse
    \/ AttemptNoResponse
    \/ Sleep

FetchSpec == FetchInit /\ [][FetchNext]_vars

(***************************************************************************)
(* Ingestion: QueryController.process_document_queries, one step per call  *)
(* of a collaborator.  Every server process runs one request at a time;    *)
(* requests of different processes interleave between these calls.         *)
(***************************************************************************)
\* a lookup that never finds a row
SelectByUrl_none(url) == <<>>

\* database_service.py:22  select("*").eq("url", url)
SelectByUrl(url) == SelectSeq(documents, LAMBDA row : row.url = url)

\* database_service.py:52  select("id").eq("document_id", document_id)
ChunksOf(document_id) ==
    {k \in 1..Len(document_chunks) : document_chunks[k].document_id = document_id}

\* a check that answers from the rows also when the select raised
has_chunks_ignoringError(document_id, db_ok) == ChunksOf(document_id) # {}

\* database_service.py:49-57  has_chunks: the answer when the select works,
\* False when it raises
has_chunks(document_id, db_ok) ==
    IF db_ok THEN ChunksOf(document_id) # {} ELSE FALSE

\* an insert that replaces the row of the same URL
InsertDocumentRow_upsert(rows, row) ==
    IF \E k \in 1..Len(rows) : rows[k].url = row.url
    THEN [k \in 1..Len(rows) |-> IF rows[k].url = row.url THEN row ELSE rows[k]]
    ELSE Append(rows, row)

\* database_service.py:36  insert(new_document) into documents
InsertDocumentRow(rows, row) == Append(rows, row)

\* an insert that keeps one row per document and ordinal
InsertChunk_unique(rows, row) ==
    IF \E k \in 1..Len(rows) : /\ rows[k].document_id = row.document_id
                               /\ rows[k].chunk_index = row.chunk_index
    THEN rows
    ELSE Append(rows, row)

\* database_service.py:77  insert(chunk_data) into document_chunks
InsertChunk(rows, row) == Append(rows, row)

\* pinecone_service.py:96  index.upsert(vectors=vectors): a vector replaces
\* the stored one of the same id
Upsert(stored, new) ==
    {v \in stored : v.id \notin {n.id : n \in new}} \cup new

\* every id generated so far that is still held somewhere
KnownIds ==
    {document_chunks[k].pinecone_id : k \in 1..Len(document_chunks)}
        \cup {v.id : v \in vectors}
        \cup UNION {{chunk_data[q][k] : k \in DOMAIN chunk_data[q]} : q \in Procs}
        \cup issued

\* pinecone_service.py:70,81,105  str(uuid.uuid4())[:8]: 8 random hex digits.
\* Suffixes are only ever compared, so the draw is either a suffix no id of
\* this prefix, document and ordinal has had (the least unused number stands
\* for all of them) or one that such an id already has.
Suffixes(prefix, document_id, ordinal) ==
    LET used == {id.suffix : id \in {x \in KnownIds : /\ x.prefix = prefix
                                                      /\ x.document_id = document_id
                                                      /\ x.chunk_index = ordinal}}
        fresh == CHOOSE n \in 1..(Cardinality(used) + 1) :
                    n \notin used /\ \A m \in 1..(n - 1) : m \in used
    IN  used \cup {fresh}

\* the draws of one store_chunks call, one suffix per chunk
SuffixDraws(prefix, document_id, n) ==
    {sfx \in [1..n -> 1..(MaxRequests + 1)] :
        \A k \in 1..n : sfx[k] \in Suffixes(prefix, document_id, k - 1)}

\* ids whose ordinal counts from 1
PineconeIds_from1(prefix, document_id, sfx) ==
    [k \in DOMAIN sfx |->
        [prefix |-> prefix, document_id |-> document_id, chunk_index |-> k, suffix |-> sfx[k]]]

\* pinecone_service.py:70,81,105  the ids store_chunks generates
PineconeIds(prefix, document_id, sfx) ==
    [k \in DOMAIN sfx |->
        [prefix |-> prefix, document_id |-> document_id, chunk_index |-> k - 1, suffix |-> sfx[k]]]

\* vectors whose ordinals count down from the last chunk
PreparedVectors_reversed(ids, document_id, chunk_list) ==
    {[id |-> ids[k], document_id |-> document_id, chunk_index |-> Len(chunk_list) - k,
      text |-> Prefix(chunk_list[k], text_limit), full_text |-> chunk_list[k]] :
        k \in DOMAIN chunk_list}

\* pinecone_service.py:84-93  the vectors store_chunks prepares
PreparedVectors(ids, document_id, chunk_list) ==
    {[id |-> ids[k], document_id |-> document_id, chunk_index |-> k - 1,
      text |-> Prefix(chunk_list[k], text_limit), full_text |-> chunk_list[k]] :
        k \in DOMAIN chunk_list}

\* a store_chunks that goes to the vector service whenever it answers
StorePrefix_reconnect(handle, call_ok) ==
    IF call_ok THEN "" ELSE IF handle THEN "fallback" ELSE "local"

\* pinecone_service.py:67-70,72-99,101-105  which ids store_chunks returns:
\* "local_" ids without an index handle, plain ids when encode and upsert
\* worked, "fallback_" ids when they raised
StorePrefix(handle, call_ok) ==
    IF ~handle THEN "local"
    ELSE IF call_ok THEN ""
    ELSE "fallback"

\* a search whose failed query is not caught and answers from stale results
SearchMatches_noCatch(handle, call_ok, stored, top_k) ==
    IF handle
    THEN {S \in SUBSET stored :
            Cardinality(S) = IF Cardinality(stored) < top_k THEN Cardinality(stored) ELSE top_k}
    ELSE {{}}

\* pinecone_service.py:107-141  the results search_similar_chunks can return:
\* nothing without an index handle or when the query raised, else the top_k
\* nearest of all stored vectors (no document filter)
SearchMatches(handle, call_ok, stored, top_k) ==
    IF handle /\ call_ok
    THEN {S \in SUBSET stored :
            Cardinality(S) = IF Cardinality(stored) < top_k THEN Cardinality(stored) ELSE top_k}
    ELSE {{}}

\* query_controller.py:58  top_k=5
top_k == 5

\* the request of process p raises at position "where"
Raise(p, where) ==
    /\ pc' = [pc EXCEPT ![p] = "failed"]
    /\ failedAt' = [failedAt EXCEPT ![p] = where]

\* a request arrives at an idle process
Begin(p, url) ==
    /\ pc[p] = "idle"
    /\ nreq < MaxRequests
    /\ nreq' = nreq + 1
    /\ pc' = [pc EXCEPT ![p] = "select"]
    /\ pdf_url' = [pdf_url EXCEPT ![p] = url]
    /\ afterSuccess' = [afterSuccess EXCEPT ![p] =
                            cycles[url] >= 1 /\ \A q \in Procs : pc[q] = "idle"]
    /\ UNCHANGED <<documents, document_chunks, vectors, index, document, chunks, chunk_data,
                   chunk_index, observed, ran, failedAt, cycles>>
    /\ UNCHANGED <<fvars, xvars>>

\* database_service.py:21-27  get_or_create_document: look the URL up
SelectDocument(p) ==
    /\ pc[p] = "select"
    /\ \/ /\ Raise(p, "get_or_create_document")
          /\ UNCHANGED document
       \/ LET found == SelectByUrl(pdf_url[p]) IN
          IF found # <<>>
          THEN /\ document' = [document EXCEPT ![p] = found[1].id]
               /\ pc' = [pc EXCEPT ![p] = "has_chunks"]
               /\ UNCHANGED failedAt
          ELSE /\ pc' = [pc EXCEPT ![p] = "insert"]
               /\ UNCHANGED <<document, failedAt>>
    /\ UNCHANGED <<documents, document_chunks, vectors, index, pdf_url, chunks, chunk_data,
                   chunk_index, observed, ran, afterSuccess, cycles, nreq>>
    /\ UNCHANGED <<fvars, xvars>>

\* database_service.py:29-43  get_or_create_document: insert a new row
InsertDocument(p) ==
    /\ pc[p] = "insert"
    /\ \/ /\ Raise(p, "get_or_create_document")
          /\ UNCHANGED <<documents, document>>
       \/ LET id == Len(documents) + 1 IN
          /\ documents' = InsertDocumentRow(documents, [id |-> id, url |-> pdf_url[p]])
          /\ document' = [document EXCEPT ![p] = id]
          /\ pc' = [pc EXCEPT ![p] = "has_chunks"]
          /\ UNCHANGED failedAt
    /\ UNCHANGED <<document_chunks, vectors, index, pdf_url, chunks, chunk_data,
                   chunk_index, observed, ran, afterSuccess, cycles, nreq>>
    /\ UNCHANGED <<fvars, xvars>>

\* query_controller.py:34,45-46  the has_chunks check and the branch on it
HasChunks(p) ==
    /\ pc[p] = "has_chunks"
    /\ \E db_ok \in BOOLEAN :
        LET answer == has_chunks(document[p], db_ok) IN
        /\ observed' = [observed EXCEPT ![p] =
                            IF ~db_ok THEN "error" ELSE IF answer THEN "true" ELSE "false"]
        /\ pc' = [pc EXCEPT ![p] = IF answer THEN "questions" ELSE "extract"]
    /\ UNCHANGED <<documents, document_chunks, vectors, index, pdf_url, document, chunks,
                   chunk_data, chunk_index, ran, afterSuccess, failedAt, cycles, nreq>>
    /\ UNCHANGED <<fvars, xvars>>

\* query_controller.py:38-41  extract_text_from_url, then chunk_text
ExtractText(p) ==
    /\ pc[p] = "extract"
    /\ IF ~ValidScheme(pdf_url[p])
       THEN /\ Raise(p, "extract_text_from_url")
            /\ UNCHANGED <<chunks, ran>>
       ELSE /\ ran' = [ran EXCEPT ![p] = TRUE]
            /\ \/ /\ Raise(p, "extract_text_from_url")
                  /\ UNCHANGED chunks
               \/ \E chunk_list \in ChunkLists :
                    /\ chunks' = [chunks EXCEPT ![p] = chunk_list]
                    /\ pc' = [pc EXCEPT ![p] = "store"]
                    /\ UNCHANGED failedAt
    /\ UNCHANGED <<documents, document_chunks, vectors, index, pdf_url, document,
                   chunk_data, chunk_index, observed, afterSuccess, cycles, nreq>>
    /\ UNCHANGED <<fvars, xvars>>

\* _store_document_chunks has returned: the ingestion cycle is complete
Complete(p) ==
    /\ pc' = [pc EXCEPT ![p] = "questions"]
    /\ cycles' = [cycles EXCEPT ![pdf_url[p]] = @ + 1]

\* query_controller.py:84, pinecone_service.py:65-105  store_chunks
StoreChunks(p) ==
    /\ pc[p] = "store"
    /\ \E call_ok \in BOOLEAN :
       \E sfx \in SuffixDraws(StorePrefix(index[p], call_ok), document[p], Len(chunks[p])) :
        LET prefix == StorePrefix(index[p], call_ok)
            ids == PineconeIds(prefix, document[p], sfx) IN
        /\ chunk_data' = [chunk_data EXCEPT ![p] = ids]
        /\ vectors' = IF prefix = ""
                      THEN Upsert(vectors, PreparedVectors(ids, document[p], chunks[p]))
                      ELSE vectors
    /\ chunk_index' = [chunk_index EXCEPT ![p] = 0]
    /\ IF chunks[p] = <<>>
       THEN Complete(p)
       ELSE /\ pc' = [pc EXCEPT ![p] = "persist"]
            /\ UNCHANGED cycles
    /\ UNCHANGED <<documents, document_chunks, index, pdf_url, document, chunks,
                   observed, ran, afterSuccess, failedAt, nreq>>
    /\ UNCHANGED <<fvars, xvars>>

\* query_controller.py:87-90, database_service.py:59-86  one iteration of
\* the loop over zip(chunks, chunk_data): create_document_chunk
CreateDocumentChunk(p) ==
    /\ pc[p] = "persist"
    /\ \/ /\ Raise(p, "create_document_chunk")
          /\ UNCHANGED <<document_chunks, chunk_index, cycles>>
       \/ LET k == chunk_index[p] + 1
              row == [id |-> Len(document_chunks) + 1,
                      document_id |-> document[p],
                      chunk_index |-> chunk_index[p],
                      chunk_text |-> chunks[p][k],
                      pinecone_id |-> chunk_data[p][k]]
          IN
          /\ document_chunks' = InsertChunk(document_chunks, row)
          /\ chunk_index' = [chunk_index EXCEPT ![p] = k]
          /\ UNCHANGED failedAt
          /\ IF k = Len(chunks[p])
             THEN Complete(p)
             ELSE UNCHANGED <<pc, cycles>>
    /\ UNCHANGED <<documents, vectors, index, pdf_url, document, chunks, chunk_data,
                   observed, ran, afterSuccess, nreq>>
    /\ UNCHANGED <<fvars, xvars>>

\* query_controller.py:48-78  the loop over the questions: it writes only
\* user_queries, answers and answer_clauses, and returns or raises
AnswerQuestions(p) ==
    /\ pc[p] = "questions"
    /\ \/ /\ pc' = [pc EXCEPT ![p] = "done"]
          /\ UNCHANGED failedAt
       \/ Raise(p, "questions")
    /\ UNCHANGED <<documents, document_chunks, vectors, index, pdf_url, document, chunks,
                   chunk_data, chunk_index, observed, ran, afterSuccess, cycles, nreq>>
    /\ UNCHANGED <<fvars, xvars>>

\* hackrx.py:38,42,59-62  the response is sent (200, 500 or 401); the
\* process is free
Return(p) ==
    /\ pc[p] \in {"done", "failed", "rejected"}
    /\ pc' = [pc EXCEPT ![p] = "idle"]
    /\ pdf_url' = [pdf_url EXCEPT ![p] = "none"]
    /\ document' = [document EXCEPT ![p] = 0]
    /\ chunks' = [chunks EXCEPT ![p] = <<>>]
    /\ chunk_data' = [chunk_data EXCEPT ![p] = <<>>]
    /\ chunk_index' = [chunk_index EXCEPT ![p] = 0]
    /\ observed' = [observed EXCEPT ![p] = "none"]
    /\ ran' = [ran EXCEPT ![p] = FALSE]
    /\ afterSuccess' = [afterSuccess EXCEPT ![p] = FALSE]
    /\ failedAt' = [failedAt EXCEPT ![p] = "none"]
    /\ authorization' = [authorization EXCEPT ![p] = <<>>]
    /\ questions' = [questions EXCEPT ![p] = <<>>]
    /\ answers' = [answers EXCEPT ![p] = <<>>]
    /\ query' = [query EXCEPT ![p] = 0]
    /\ relevant_chunks' = [relevant_chunks EXCEPT ![p] = {}]
    /\ answer_text' = [answer_text EXCEPT ![p] = NoAnswer]
    /\ UNCHANGED <<documents, document_chunks, vectors, index, cycles, nreq>>
    /\ UNCHANGED <<user_queries, answer_rows, answer_clauses>>
    /\ UNCHANGED <<fvars, pvars, tvars>>

\* main.py:17-39  the services are constructed once per process at startup;
\* the index handle is None when Pinecone could not be reached
Init ==
    /\ TextIdle
    /\ IngestIdle
    /\ VectorIdle
    /\ RequestIdle
    /\ index \in [Procs -> BOOLEAN]
    /\ fpc = "start"
    /\ furl = "https://a"
    /\ attempt = 0
    /\ attemptsMade = 0
    /\ requestsSent = 0
    /\ slept = 0
    /\ waits = <<>>
    /\ history = <<>>
    /\ responses = <<>>
    /\ fError = "none"

Next ==
    \E p \in Procs :
        \/ \E url \in Urls : Begin(p, url)
        \/ SelectDocument(p)
        \/ InsertDocument(p)
        \/ HasChunks(p)
        \/ ExtractText(p)
        \/ StoreChunks(p)
        \/ CreateDocumentChunk(p)
        \/ AnswerQuestions(p)
        \/ Return(p)

Spec == Init /\ [][Next]_vars

(***************************************************************************)
(* The vector component by itself: PineconeService of one server process   *)
(* (process 1), from its construction on, called with arbitrary arguments  *)
(* while the vector service comes and goes.                                *)
(***************************************************************************)
\* calls of the component over its life
MaxCalls == 3

\* the documents whose chunks are stored
DocumentIds == {1, 2}

\* whether a call to the vector service works: never while it is down
CallOutcomes == IF service = "up" THEN BOOLEAN ELSE {FALSE}

\* the vector service becomes unreachable, or reachable again
ServiceChange ==
    /\ service' = IF service = "up" THEN "down" ELSE "up"
    /\ UNCHANGED <<ctor, index_exists, created, contacts, calls, issued, collision, last>>
    /\ UNCHANGED <<fvars, ivars, qvars, tvars>>

\* __init__ ends: with or without an index handle
Constructed(handle) ==
    /\ ctor' = "ready"
    /\ index' = [index EXCEPT ![1] = handle]

\* pinecone_service.py:22,55-58  list_indexes().names(), and the except
\* clause around the whole connection
ListIndexes ==
    /\ ctor = "new"
    /\ \E ok \in CallOutcomes :
        IF ~ok THEN Constructed(FALSE)
        ELSE /\ ctor' = IF index_exists THEN "connect" ELSE "create"
             /\ UNCHANGED index
    /\ UNCHANGED <<service, index_exists, created, contacts, calls, issued, collision, last>>
    /\ UNCHANGED <<fvars, documents, document_chunks, vectors, pc, pdf_url, document, chunks,
                   chunk_data, chunk_index, observed, ran, afterSuccess, failedAt, cycles, nreq>>
    /\ UNCHANGED <<qvars, tvars>>

\* pinecone_service.py:25-42  create_index, and the return without a handle
\* when it raises
CreateIndex ==
    /\ ctor = "create"
    /\ created' = created + 1
    /\ \E ok \in CallOutcomes :
        IF ok
        THEN /\ index_exists' = TRUE
             /\ ctor' = "connect"
             /\ UNCHANGED index
        ELSE /\ Constructed(FALSE)
             /\ UNCHANGED index_exists
    /\ UNCHANGED <<service, contacts, calls, issued, collision, last>>
    /\ UNCHANGED <<fvars, documents, document_chunks, vectors, pc, pdf_url, document, chunks,
                   chunk_data, chunk_index, observed, ran, afterSuccess, failedAt, cycles, nreq>>
    /\ UNCHANGED <<qvars, tvars>>

\* pinecone_service.py:45-58  pc.Index(name); a failing describe_index_stats
\* is only logged
Connect ==
    /\ ctor = "connect"
    /\ \E ok \in CallOutcomes : Constructed(ok)
    /\ UNCHANGED <<service, index_exists, created, contacts, calls, issued, collision, last>>
    /\ UNCHANGED <<fvars, documents, document_chunks, vectors, pc, pdf_url, document, chunks,
                   chunk_data, chunk_index, observed, ran, afterSuccess, failedAt, cycles, nreq>>
    /\ UNCHANGED <<qvars, tvars>>

\* pinecone_service.py:65-105  store_chunks(chunks, document_id)
CallStoreChunks(document_id, chunk_list) ==
    /\ ctor = "ready"
    /\ calls < MaxCalls
    /\ calls' = calls + 1
    /\ \E call_ok \in CallOutcomes :
       \E sfx \in SuffixDraws(StorePrefix(index[1], call_ok), document_id, Len(chunk_list)) :
        LET prefix == StorePrefix(index[1], call_ok)
            ids == PineconeIds(prefix, document_id, sfx)
            new == {ids[k] : k \in DOMAIN ids}
        IN
        /\ vectors' = IF prefix = ""
                      THEN Upsert(vectors, PreparedVectors(ids, document_id, chunk_list))
                      ELSE vectors
        /\ issued' = issued \cup new
        /\ collision' = (collision \/ new \cap issued # {})
        /\ last' = [op |-> "store", handle |-> index[1], call_ok |-> call_ok,
                    document_id |-> document_id, chunk_list |-> chunk_list,
                    ids |-> ids, matches |-> {}]
    /\ contacts' = IF index[1] THEN contacts + 1 ELSE contacts
    /\ UNCHANGED <<ctor, service, index_exists, created>>
    /\ UNCHANGED <<fvars, documents, document_chunks, index, pc, pdf_url, document, chunks,
                   chunk_data, chunk_index, observed, ran, afterSuccess, failedAt, cycles, nreq>>
    /\ UNCHANGED <<qvars, tvars>>

\* pinecone_service.py:107-141  search_similar_chunks(query, top_k)
CallSearch ==
    /\ ctor = "ready"
    /\ calls < MaxCalls
    /\ calls' = calls + 1
    /\ \E call_ok \in CallOutcomes :
       \E found \in SearchMatches(index[1], call_ok, vectors, top_k) :
        last' = [op |-> "search", handle |-> index[1], call_ok |-> call_ok,
                 document_id |-> 0, chunk_list |-> <<>>, ids |-> <<>>, matches |-> found]
    /\ contacts' = IF index[1] THEN contacts + 1 ELSE contacts
    /\ UNCHANGED <<ctor, service, index_exists, created, issued, collision>>
    /\ UNCHANGED <<fvars, ivars, qvars, tvars>>

\* pinecone_service.py:12-17  the component before __init__ has connected:
\* self.index = None; the index may or may not exist at the service
VectorInit ==
    /\ TextIdle
    /\ IngestIdle
    /\ RequestIdle
    /\ FetchIdle
    /\ index = [p \in Procs |-> FALSE]
    /\ ctor = "new"
    /\ service \in {"up", "down"}
    /\ index_exists \in BOOLEAN
    /\ created = 0
    /\ contacts = 0
    /\ calls = 0
    /\ issued = {}
    /\ collision = FALSE
    /\ last = NoCall

VectorNext ==
    \/ ServiceChange
    \/ ListIndexes
    \/ CreateIndex
    \/ Connect
    \/ \E document_id \in DocumentIds, chunk_list \in ChunkLists :
            CallStoreChunks(document_id, chunk_list)
    \/ CallSearch

VectorSpec == VectorInit /\ [][VectorNext]_vars

(***************************************************************************)
(* The whole request handler: authentication, ingestion and the loop over  *)
(* the questions, for one request from its arrival at server process 1 to  *)
(* its response; what earlier requests left in the database and the vector *)
(* index is in the initial state.                                          *)
(***************************************************************************)
\* questions of one request
MaxQuestions == 2

QuestionText(n) == [k \in 1..n |-> IF k = 1 THEN "q1" ELSE IF k = 2 THEN "q2" ELSE "q3"]
QuestionLists == {QuestionText(n) : n \in 0..MaxQuestions}

\* settings.py  BEARER_TOKEN
BEARER_TOKEN == "secret"

\* Authorization headers as their space-separated words: no header,
\* "Bearer secret", "Bearer wrong", "Basic secret", "Bearer secret extra"
Headers ==
    {<<>>, <<"Bearer", "secret">>, <<"Bearer", "wrong">>, <<"Basic", "secret">>,
     <<"Bearer", "secret", "extra">>}

\* hackrx.py:36  authorization and authorization.startswith("Bearer ")
StartsWithBearer(header) == Len(header) >= 2 /\ header[1] = "Bearer"

\* hackrx.py:40  authorization.split(" ")[1]
Token(header) == header[2]

\* a verification that accepts every token
verify_bearer_token_any(token) == TRUE

\* auth.py:6-12  verify_bearer_token
verify_bearer_token(token) == token = BEARER_TOKEN

\* a model client that raises instead of answering
generate_answer_raises(question, llm_ok) ==
    IF llm_ok THEN [kind |-> "generated", question |-> question]
    ELSE [kind |-> "raised", question |-> question]

\* gemini_service.py:16-37  generate_answer: the model's answer, or the
\* fixed fallback string for the question when the call raised
generate_answer(question, llm_ok) ==
    IF llm_ok THEN [kind |-> "generated", question |-> question]
    ELSE [kind |-> "fallback", question |-> question]

\* a loop that ends after any question
LoopDone_early(p) == TRUE

\* query_controller.py:50  "for question in questions" is exhausted
LoopDone(p) == Len(answers[p]) = Len(questions[p])

\* database_service.py:142  select("id").eq("pinecone_id", id): the rows of
\* document_chunks carrying the id
RowsByPineconeId(id) ==
    {k \in 1..Len(document_chunks) : document_chunks[k].pinecone_id = id}

\* database_service.py:140-154  the clauses built for the matches: a match
\* without a chunk row gives none, a match with several rows is linked to
\* the one the unordered select returns first
RECURSIVE ClauseSets(_, _)
ClauseSets(matches, answer_id) ==
    IF matches = {} THEN {{}}
    ELSE LET m == CHOOSE x \in matches : TRUE
             rest == ClauseSets(matches \ {m}, answer_id)
             rows == RowsByPineconeId(m.id)
         IN  IF rows = {} THEN rest
             ELSE {r \cup {[answer_id |-> answer_id,
                            chunk_id |-> document_chunks[k].id,
                            clause_text |-> Prefix(m.full_text, text_limit)]} :
                        r \in rest, k \in rows}

\* a loop that takes the questions from the last to the first
CurrentQuestion_reversed(p) == questions[p][Len(questions[p]) - Len(answers[p])]

\* query_controller.py:50  "for question in questions": the question of the
\* current iteration, one iteration per answer appended so far
CurrentQuestion(p) == questions[p][Len(answers[p]) + 1]

\* the steps of the loop over the questions
QuestionSteps == {"create_user_query", "create_answer_with_clauses", "generate_answer"}

\* hackrx.py:21-26  the request arrives at the idle process
Receive(p, header, url, qs) ==
    /\ pc[p] = "idle"
    /\ nreq = 0
    /\ nreq' = 1
    /\ pc' = [pc EXCEPT ![p] = "auth"]
    /\ authorization' = [authorization EXCEPT ![p] = header]
    /\ questions' = [questions EXCEPT ![p] = qs]
    /\ pdf_url' = [pdf_url EXCEPT ![p] = url]
    /\ afterSuccess' = [afterSuccess EXCEPT ![p] =
                            cycles[url] >= 1 /\ \A q \in Procs : pc[q] = "idle"]
    /\ UNCHANGED <<documents, document_chunks, vectors, index, document, chunks, chunk_data,
                   chunk_index, observed, ran, failedAt, cycles>>
    /\ UNCHANGED <<answers, query, relevant_chunks, answer_text, user_queries, answer_rows,
                   answer_clauses>>
    /\ UNCHANGED <<fvars, pvars, tvars>>

\* hackrx.py:36-42  the bearer check: HTTP 401 unless the header starts with
\* "Bearer " and its second word is the configured token
Authenticate(p) ==
    /\ pc[p] = "auth"
    /\ pc' = [pc EXCEPT ![p] =
                IF StartsWithBearer(authorization[p])
                   /\ verify_bearer_token(Token(authorization[p]))
                THEN "select" ELSE "rejected"]
    /\ UNCHANGED <<documents, document_chunks, vectors, index, pdf_url, document, chunks,
                   chunk_data, chunk_index, observed, ran, afterSuccess, failedAt, cycles, nreq>>
    /\ UNCHANGED <<fvars, xvars>>

\* query_controller.py:54, database_service.py:88-109  create_user_query
CreateUserQuery(p) ==
    /\ pc[p] = "questions"
    /\ ~LoopDone(p)
    /\ \/ /\ Raise(p, "create_user_query")
          /\ UNCHANGED <<user_queries, query>>
       \/ LET id == Len(user_queries) + 1 IN
          /\ user_queries' = Append(user_queries,
                                [id |-> id, document_id |-> document[p],
                                 query_text |-> CurrentQuestion(p)])
          /\ query' = [query EXCEPT ![p] = id]
          /\ pc' = [pc EXCEPT ![p] = "search"]
          /\ UNCHANGED failedAt
    /\ UNCHANGED <<documents, document_chunks, vectors, index, pdf_url, document, chunks,
                   chunk_data, chunk_index, observed, ran, afterSuccess, cycles, nreq>>
    /\ UNCHANGED <<authorization, questions, answers, relevant_chunks, answer_text,
                   answer_rows, answer_clauses>>
    /\ UNCHANGED <<fvars, pvars, tvars>>

\* query_controller.py:57-59, pinecone_service.py:107-141
\* search_similar_chunks(question, top_k=5)
Search(p) ==
    /\ pc[p] = "search"
    /\ \E call_ok \in BOOLEAN :
       \E found \in SearchMatches(index[p], call_ok, vectors, top_k) :
        relevant_chunks' = [relevant_chunks EXCEPT ![p] = found]
    /\ pc' = [pc EXCEPT ![p] = "generate"]
    /\ UNCHANGED <<documents, document_chunks, vectors, index, pdf_url, document, chunks,
                   chunk_data, chunk_index, observed, ran, afterSuccess, failedAt, cycles, nreq>>
    /\ UNCHANGED <<authorization, questions, answers, query, answer_text, user_queries,
                   answer_rows, answer_clauses>>
    /\ UNCHANGED <<fvars, pvars, tvars>>

\* query_controller.py:62-64  generate_answer(question, relevant_chunks); an
\* exception of the call would leave the loop through line 76
Generate(p) ==
    /\ pc[p] = "generate"
    /\ \E llm_ok \in BOOLEAN :
        LET result == generate_answer(CurrentQuestion(p), llm_ok) IN
        IF result.kind = "raised"
        THEN /\ Raise(p, "generate_answer")
             /\ UNCHANGED answer_text
        ELSE /\ answer_text' = [answer_text EXCEPT ![p] = result]
             /\ pc' = [pc EXCEPT ![p] = "answer"]
             /\ UNCHANGED failedAt
    /\ UNCHANGED <<documents, document_chunks, vectors, index, pdf_url, document, chunks,
                   chunk_data, chunk_index, observed, ran, afterSuccess, cycles, nreq>>
    /\ UNCHANGED <<authorization, questions, answers, query, relevant_chunks, user_queries,
                   answer_rows, answer_clauses>>
    /\ UNCHANGED <<fvars, pvars, tvars>>

\* an error handler that deletes what the request has written
KeptOnError_rollback(rows) == <<>>

\* query_controller.py:76-78, database_service.py:162-164  the except clauses
\* log and re-raise: the rows written before the error stay as they are
KeptOnError(rows) == rows

\* query_controller.py:67-71, database_service.py:111-164
\* create_answer_with_clauses, then answers.append(answer_text): the insert
\* of the answer fails, or the answer is inserted and the clauses fail, or
\* both are written
CreateAnswer(p) ==
    /\ pc[p] = "answer"
    /\ LET id == Len(answer_rows) + 1
           row == [id |-> id, query_id |-> query[p], answer_text |-> answer_text[p]]
       IN
       \/ /\ Raise(p, "create_answer_with_clauses")
          /\ user_queries' = KeptOnError(user_queries)
          /\ UNCHANGED <<answer_rows, answer_clauses, answers>>
       \/ /\ Raise(p, "create_answer_with_clauses")
          /\ answer_rows' = Append(answer_rows, row)
          /\ user_queries' = KeptOnError(user_queries)
          /\ UNCHANGED <<answer_clauses, answers>>
       \/ /\ answer_rows' = Append(answer_rows, row)
          /\ \E clauses \in ClauseSets(relevant_chunks[p], id) :
                answer_clauses' = answer_clauses \cup clauses
          /\ answers' = [answers EXCEPT ![p] = Append(@, answer_text[p])]
          /\ pc' = [pc EXCEPT ![p] = "questions"]
          /\ UNCHANGED <<failedAt, user_queries>>
    /\ UNCHANGED <<documents, document_chunks, vectors, index, pdf_url, document, chunks,
                   chunk_data, chunk_index, observed, ran, afterSuccess, cycles, nreq>>
    /\ UNCHANGED <<authorization, questions, query, relevant_chunks, answer_text>>
    /\ UNCHANGED <<fvars, pvars, tvars>>

\* query_controller.py:73-74  return answers
FinishQuestions(p) ==
    /\ pc[p] = "questions"
    /\ LoopDone(p)
    /\ pc' = [pc EXCEPT ![p] = "done"]
    /\ UNCHANGED <<documents, document_chunks, vectors, index, pdf_url, document, chunks,
                   chunk_data, chunk_index, observed, ran, afterSuccess, failedAt, cycles, nreq>>
    /\ UNCHANGED <<fvars, xvars>>

\* hackrx.py:38,42,59-62  the response of the request of process p once it
\* has ended: 200 with the answers, 500, or 401
Response(p) ==
    IF pc[p] = "done" THEN [status |-> 200, answers |-> answers[p]]
    ELSE IF pc[p] = "failed" THEN [status |-> 500, answers |-> <<>>]
    ELSE IF pc[p] = "rejected" THEN [status |-> 401, answers |-> <<>>]
    ELSE [status |-> 0, answers |-> <<>>]

\* what a completed ingestion of "https://a" by an earlier run of the server
\* has left in the database and in the vector index: document 1, its chunk
\* rows and their vectors
EarlierChunks == ChunkText(MaxChunks)
EarlierIds == PineconeIds("", 1, [k \in DOMAIN EarlierChunks |-> 1])
EarlierRows ==
    [k \in DOMAIN EarlierChunks |->
        [id |-> k, document_id |-> 1, chunk_index |-> k - 1,
         chunk_text |-> EarlierChunks[k], pinecone_id |-> EarlierIds[k]]]

\* main.py:17-39  the services of process 1 are constructed, with or
\* without an index handle; the database and the vector index are empty or
\* hold the document of an earlier run
ReqInit ==
    /\ TextIdle
    /\ VectorIdle
    /\ RequestIdle
    /\ FetchIdle
    /\ index \in {[p \in Procs |-> handle] : handle \in BOOLEAN}
    /\ pc = [p \in Procs |-> "idle"]
    /\ pdf_url = [p \in Procs |-> "none"]
    /\ document = [p \in Procs |-> 0]
    /\ chunks = [p \in Procs |-> <<>>]
    /\ chunk_data = [p \in Procs |-> <<>>]
    /\ chunk_index = [p \in Procs |-> 0]
    /\ observed = [p \in Procs |-> "none"]
    /\ ran = [p \in Procs |-> FALSE]
    /\ afterSuccess = [p \in Procs |-> FALSE]
    /\ failedAt = [p \in Procs |-> "none"]
    /\ nreq = 0
    /\ \/ /\ documents = <<>>
          /\ document_chunks = <<>>
          /\ vectors = {}
          /\ cycles = [u \in Urls \cup RequestUrls |-> 0]
       \/ /\ documents = <<[id |-> 1, url |-> "https://a"]>>
          /\ document_chunks = EarlierRows
          /\ vectors = PreparedVectors(EarlierIds, 1, EarlierChunks)
          /\ cycles = [u \in Urls \cup RequestUrls |-> IF u = "https://a" THEN 1 ELSE 0]

ReqNext ==
    \/ \E header \in Headers, url \in RequestUrls, qs \in QuestionLists :
            Receive(1, header, url, qs)
    \/ Authenticate(1)
    \/ SelectDocument(1)
    \/ InsertDocument(1)
    \/ HasChunks(1)
    \/ ExtractText(1)
    \/ StoreChunks(1)
    \/ CreateDocumentChunk(1)
    \/ CreateUserQuery(1)
    \/ Search(1)
    \/ Generate(1)
    \/ CreateAnswer(1)
    \/ FinishQuestions(1)
    \/ Return(1)

ReqSpec == ReqInit /\ [][ReqNext]_vars

(***************************************************************************)
(* The chunker by itself: chunk_text applied to a normalized text.         *)
(***************************************************************************)
\* sentences of a text, words of a sentence
MaxSentences == 3
MaxWords == 2

\* the words are 50 or 500 characters long
WordLengths == {50, 500}

\* a sentence is given by the lengths of its words
SentenceShapes == UNION {[1..n -> WordLengths] : n \in 1..MaxWords}

\* the words of a sentence separated by single spaces, the k-th word of the
\* text being word k
RECURSIVE SentenceRuns(_, _)
SentenceRuns(shape, first) ==
    IF shape = <<>> THEN <<>>
    ELSE <<Word(first, Head(shape))>>
            \o (IF Len(shape) > 1 THEN <<Spaces(1)>> ELSE <<>>)
            \o SentenceRuns(Tail(shape), first + 1)

\* sentences each closed by a period and separated by a space
RECURSIVE TextOf(_, _)
TextOf(shapes, first) ==
    IF shapes = <<>> THEN <<>>
    ELSE SentenceRuns(Head(shapes), first) \o <<Periods(1)>>
            \o (IF Len(shapes) > 1 THEN <<Spaces(1)>> ELSE <<>>)
            \o TextOf(Tail(shapes), first + Len(Head(shapes)))

\* normalized texts of 2300 characters: one without a sentence mark, one of
\* four sentences, one of three sentences
Unbroken2300 == <<Word(1, 2300)>>
FourSentences2300 == TextOf(<<<<574>>, <<574>>, <<574>>, <<571>>>>, 1)
ThreeSentences2300 == TextOf(<<<<900>>, <<700>>, <<695>>>>, 1)

\* a normalized text without any sentence: "..."
OnlyMarks == <<Periods(3)>>

\* the texts chunk_text is applied to
Texts ==
    {TextOf(shapes, 1) : shapes \in UNION {[1..n -> SentenceShapes] : n \in 0..MaxSentences}}
        \cup {Unbroken2300, FourSentences2300, ThreeSentences2300, OnlyMarks}

\* everything but the text pipeline is idle
RestIdle ==
    /\ IngestIdle
    /\ VectorIdle
    /\ RequestIdle
    /\ FetchIdle
    /\ index = [p \in Procs |-> TRUE]

\* pdf_service.py:154-158  sentences = self._split_into_sentences(text);
\* chunks = []; current_chunk = ""
SplitSentences ==
    /\ tpc = "chunk_text"
    /\ sentences' = split_into_sentences(text)
    /\ text_chunks' = <<>>
    /\ current_chunk' = <<>>
    /\ sentence_num' = 0
    /\ tpc' = "sentences"
    /\ UNCHANGED <<pages, page_num, text, terror, overlap_len>>
    /\ UNCHANGED <<fvars, ivars, pvars, qvars>>

\* pdf_service.py:160-173  one iteration of "for sentence in sentences"
ChunkSentence ==
    /\ tpc = "sentences"
    /\ sentence_num < Len(sentences)
    /\ sentence_num' = sentence_num + 1
    /\ LET sentence == sentences[sentence_num + 1] IN
       IF StrLen(current_chunk) + StrLen(sentence) > chunk_size
       THEN IF current_chunk # <<>>
            THEN /\ text_chunks' = Append(text_chunks, Strip(current_chunk))
                 /\ current_chunk' = Concat(Concat(get_overlap_text(current_chunk),
                                                   <<Spaces(1)>>), sentence)
            ELSE /\ current_chunk' = sentence
                 /\ UNCHANGED text_chunks
       ELSE /\ current_chunk' = IF current_chunk # <<>>
                                THEN Concat(Concat(current_chunk, <<Spaces(1)>>), sentence)
                                ELSE sentence
            /\ UNCHANGED text_chunks
    /\ UNCHANGED <<tpc, pages, page_num, text, terror, sentences, overlap_len>>
    /\ UNCHANGED <<fvars, ivars, pvars, qvars>>

\* pdf_service.py:175-180  the last chunk, and the return
ReturnChunks ==
    /\ tpc = "sentences"
    /\ sentence_num = Len(sentences)
    /\ text_chunks' = IF current_chunk # <<>>
                      THEN Append(text_chunks, Strip(current_chunk))
                      ELSE text_chunks
    /\ tpc' = "chunked"
    /\ UNCHANGED <<pages, page_num, text, terror, sentences, sentence_num, current_chunk,
                   overlap_len>>
    /\ UNCHANGED <<fvars, ivars, pvars, qvars>>

\* chunk_text is called with a normalized text
ChunkInit ==
    /\ RestIdle
    /\ tpc = "chunk_text"
    /\ text \in Texts
    /\ pages = <<>>
    /\ page_num = 0
    /\ terror = "none"
    /\ sentences = <<>>
    /\ sentence_num = 0
    /\ current_chunk = <<>>
    /\ text_chunks = <<>>
    /\ overlap_len = chunk_overlap

ChunkNext ==
    \/ SplitSentences
    \/ ChunkSentence
    \/ ReturnChunks

ChunkSpec == ChunkInit /\ [][ChunkNext]_vars

\* pdf_service.py:17  self.chunk_overlap = settings.CHUNK_OVERLAP: overlaps
\* the service can be configured with
OverlapSettings == {0, 50, chunk_overlap}

\* chunk_text of a service configured with one of these overlaps
OverlapInit ==
    /\ RestIdle
    /\ tpc = "chunk_text"
    /\ text \in Texts
    /\ overlap_len \in OverlapSettings
    /\ pages = <<>>
    /\ page_num = 0
    /\ terror = "none"
    /\ sentences = <<>>
    /\ sentence_num = 0
    /\ current_chunk = <<>>
    /\ text_chunks = <<>>

OverlapSpec == OverlapInit /\ [][ChunkNext]_vars

(***************************************************************************)
(* The text extraction by itself: lines 102-132 of extract_text_from_url,  *)
(* applied to a downloaded byte stream.                                    *)
(***************************************************************************)
\* pages of a PDF
MaxPages == 3

\* what page.extract_text() can yield: nothing, blanks, a word, words around
\* a character that _clean_text removes
PageTexts ==
    {<<>>, <<Spaces(2)>>, <<Word(1, 40)>>,
     <<Word(1, 3), Spaces(1), Run("@", 1, 0, 0), Spaces(1), Word(2, 3)>>}

\* a page: extract_text() returns its text, or raises
PageResults ==
    {[ok |-> TRUE, text |-> t] : t \in PageTexts} \cup {[ok |-> FALSE, text |-> <<>>]}

\* pdf_service.py:110,123,126  the messages of the ValueErrors
CorruptMessage == "Invalid or corrupted PDF file"
NoPagesMessage == "PDF file appears to be empty or corrupted"
NoTextMessage == "No text could be extracted from the PDF"

\* a test that lets whitespace-only text through
IsBlank_emptyOnly(s) == s = <<>>

\* pdf_service.py:122  not text.strip()
IsBlank(s) == Strip(s) = <<>>

\* the extraction raises
ExtractionFails(message) ==
    /\ tpc' = "failed"
    /\ terror' = message

\* pdf_service.py:104-112,125-126  PdfReader(pdf_file): PdfReadError when the
\* bytes are no PDF, ValueError when it has no pages, else text = ""
ReadPdf ==
    /\ tpc = "read"
    /\ \/ ExtractionFails(CorruptMessage)
       \/ IF Len(pages) = 0
          THEN ExtractionFails(NoPagesMessage)
          ELSE /\ tpc' = "pages"
               /\ UNCHANGED terror
    /\ UNCHANGED <<pages, page_num, text, sentences, sentence_num, current_chunk, text_chunks, overlap_len>>
    /\ UNCHANGED <<fvars, ivars, pvars, qvars>>

\* pdf_service.py:113-120  one iteration of the loop over the pages: the
\* page's text and "\n" are appended, a page that raises is skipped
ExtractPage ==
    /\ tpc = "pages"
    /\ page_num < Len(pages)
    /\ page_num' = page_num + 1
    /\ text' = IF pages[page_num + 1].ok
               THEN Concat(text, pages[page_num + 1].text \o <<Run("\n", 1, 0, 0)>>)
               ELSE text
    /\ UNCHANGED <<tpc, pages, terror, sentences, sentence_num, current_chunk, text_chunks, overlap_len>>
    /\ UNCHANGED <<fvars, ivars, pvars, qvars>>

\* pdf_service.py:122-132  the check for blank text, then _clean_text and
\* the return
ReturnText ==
    /\ tpc = "pages"
    /\ page_num = Len(pages)
    /\ IF IsBlank(text)
       THEN /\ ExtractionFails(NoTextMessage)
            /\ UNCHANGED text
       ELSE /\ text' = clean_text(text)
            /\ tpc' = "extracted"
            /\ UNCHANGED terror
    /\ UNCHANGED <<pages, page_num, sentences, sentence_num, current_chunk, text_chunks, overlap_len>>
    /\ UNCHANGED <<fvars, ivars, pvars, qvars>>

\* a byte stream has been downloaded
ExtractInit ==
    /\ RestIdle
    /\ tpc = "read"
    /\ pages \in UNION {[1..n -> PageResults] : n \in 0..MaxPages}
    /\ page_num = 0
    /\ text = <<>>
    /\ terror = "none"
    /\ sentences = <<>>
    /\ sentence_num = 0
    /\ current_chunk = <<>>
    /\ text_chunks = <<>>
    /\ overlap_len = chunk_overlap

ExtractNext ==
    \/ ReadPdf
    \/ ExtractPage
    \/ ReturnText

ExtractSpec == ExtractInit /\ [][ExtractNext]_vars

(***************************************************************************)
(* The normalization by itself: the four steps of _clean_text applied to   *)
(* a raw text.                                                             *)
(***************************************************************************)
\* runs of a raw text
MaxRuns == 5

\* a run of a raw text: a word, a space, a newline, a period, a character
\* outside the allowed set
RawRuns(k) ==
    {Word(k, 2), Spaces(1), Run("\n", 1, 0, 0), Periods(1), Run("@", 1, 0, 0)}

RawTexts ==
    {Canon(t) : t \in UNION {{s \in [1..n -> UNION {RawRuns(k) : k \in 1..n}] :
                                \A k \in 1..n : s[k] \in RawRuns(k)} : n \in 0..MaxRuns}}

\* pdf_service.py:141
SubWhitespace ==
    /\ tpc = "clean"
    /\ text' = CollapseWhitespace(text)
    /\ tpc' = "clean_special"
    /\ UNCHANGED <<pages, page_num, terror, sentences, sentence_num, current_chunk, text_chunks, overlap_len>>
    /\ UNCHANGED <<fvars, ivars, pvars, qvars>>

\* pdf_service.py:144
SubSpecial ==
    /\ tpc = "clean_special"
    /\ text' = RemoveSpecial(text)
    /\ tpc' = "clean_periods"
    /\ UNCHANGED <<pages, page_num, terror, sentences, sentence_num, current_chunk, text_chunks, overlap_len>>
    /\ UNCHANGED <<fvars, ivars, pvars, qvars>>

\* pdf_service.py:147
SubPeriods ==
    /\ tpc = "clean_periods"
    /\ text' = CollapsePeriods(text)
    /\ tpc' = "clean_strip"
    /\ UNCHANGED <<pages, page_num, terror, sentences, sentence_num, current_chunk, text_chunks, overlap_len>>
    /\ UNCHANGED <<fvars, ivars, pvars, qvars>>

\* pdf_service.py:149
StripText ==
    /\ tpc = "clean_strip"
    /\ text' = Strip(text)
    /\ tpc' = "cleaned"
    /\ UNCHANGED <<pages, page_num, terror, sentences, sentence_num, current_chunk, text_chunks, overlap_len>>
    /\ UNCHANGED <<fvars, ivars, pvars, qvars>>

\* _clean_text is called with a raw text
CleanInit ==
    /\ RestIdle
    /\ tpc = "clean"
    /\ text \in RawTexts
    /\ pages = <<>>
    /\ page_num = 0
    /\ terror = "none"
    /\ sentences = <<>>
    /\ sentence_num = 0
    /\ current_chunk = <<>>
    /\ text_chunks = <<>>
    /\ overlap_len = chunk_overlap

CleanNext ==
    \/ SubWhitespace
    \/ SubSpecial
    \/ SubPeriods
    \/ StripText

CleanSpec == CleanInit /\ [][CleanNext]_vars

(***************************************************************************)
(* Concurrent requests in one server process. uvicorn.run starts one       *)
(* process with one event loop (main.py:101-118), and each request is a    *)
(* task of that loop; here every element of Procs is such a task. A task   *)
(* gives the loop to another task only where it awaits something that is   *)
(* not ready. The handler awaits nothing but its own coroutines, and those *)
(* call requests, time.sleep, the embedding model, Pinecone, Supabase and  *)
(* Gemini synchronously: once a handler has started, it keeps the thread   *)
(* of the loop until it returns.                                           *)
(***************************************************************************)
\* the positions of a handler that has made its first call and has not
\* returned: at each of them the thread of the loop is inside a blocking
\* call of that handler
InHandler == {"insert", "has_chunks", "extract", "store", "persist", "questions",
              "done", "failed"}

\* hackrx.py:54, query_controller.py:31-74  the loop can run task p: no
\* other task holds its thread
Turn(p) == \A q \in Procs \ {p} : pc[q] \notin InHandler

\* main.py:17-39  one PineconeService for all tasks of the process
LoopInit ==
    /\ TextIdle
    /\ IngestIdle
    /\ VectorIdle
    /\ RequestIdle
    /\ FetchIdle
    /\ index \in {[p \in Procs |-> handle] : handle \in BOOLEAN}

\* query_controller.py:31  the task starts to run
LoopSelect(p) == Turn(p) /\ SelectDocument(p)

LoopInsert(p) == Turn(p) /\ InsertDocument(p)

LoopHasChunks(p) == Turn(p) /\ HasChunks(p)

\* pdf_service.py:57-97  the download and its backoff waits
LoopExtract(p) == Turn(p) /\ ExtractText(p)

\* pinecone_service.py:65-99  the embedding and the upsert
LoopStore(p) == Turn(p) /\ StoreChunks(p)

LoopPersist(p) == Turn(p) /\ CreateDocumentChunk(p)

\* query_controller.py:48-74  search, language model and persistence calls
LoopQuestions(p) == Turn(p) /\ AnswerQuestions(p)

LoopReturn(p) == Turn(p) /\ Return(p)

\* a step of the handler of task p
LoopStep(p) ==
    \/ LoopSelect(p)
    \/ LoopInsert(p)
    \/ LoopHasChunks(p)
    \/ LoopExtract(p)
    \/ LoopStore(p)
    \/ LoopPersist(p)
    \/ LoopQuestions(p)
    \/ LoopReturn(p)

\* hackrx.py:21-26  a request is accepted and its task is ready to run, or
\* the loop runs a step of a task
LoopNext ==
    \E p \in Procs :
        \/ \E url \in Urls : Begin(p, url)
        \/ LoopStep(p)

LoopSpec == LoopInit /\ [][LoopNext]_vars

(***************************************************************************)
(* Properties of the ingestion                                             *)
(***************************************************************************)
\* rows of a document holding a given ordinal
RowsWithOrdinal(document_id, ordinal) ==
    {k \in ChunksOf(document_id) : document_chunks[k].chunk_index = ordinal}

\* stored vectors of a document holding a given ordinal
VectorsWithOrdinal(document_id, ordinal) ==
    {v \in vectors : v.document_id = document_id /\ v.chunk_index = ordinal}

\* documents that have rows in document_chunks
DocumentsWithChunks ==
    {document_chunks[k].document_id : k \in 1..Len(document_chunks)}

\* C1: a request that is processed after a successful ingestion of its URL,
\* with no other request in flight when it begins, performs no fetch,
\* extract, chunk, embed or upsert.
C1_SequentialIdempotent ==
    \A p \in Procs :
        afterSuccess[p] =>
            /\ ~ran[p]
            /\ pc[p] \notin {"extract", "store", "persist"}
            /\ chunk_data[p] = <<>>

\* C2: for every number and interleaving of requests, at most one
\* fetch+chunk+embed+upsert cycle completes successfully per document URL.
C2_AtMostOneCycle ==
    \A u \in Urls : cycles[u] <= 1

\* C3: when the ingestion step of a request fails (fetch, extraction,
\* chunking, upsert or the persisting of one chunk row) the request fails
\* and its document has no chunk rows, so that the next request for the URL
\* re-runs the full pipeline.
C3_SelfHealing ==
    \A p \in Procs :
        (/\ pc[p] = "failed"
         /\ failedAt[p] \in {"extract_text_from_url", "create_document_chunk"}
         /\ \A q \in Procs \ {p} : pc[q] = "idle")
            => ChunksOf(document[p]) = {}

\* C4: whenever no ingestion is in progress, the persisted ordinals of every
\* document that has chunks are exactly 0..N-1, each exactly once.
C4_OrdinalDensity ==
    (\A p \in Procs : pc[p] \notin {"store", "persist"}) =>
        \A d \in DocumentsWithChunks :
            \A n \in 0..(Cardinality(ChunksOf(d)) - 1) :
                Cardinality(RowsWithOrdinal(d, n)) = 1

\* C5: the store holds at most one Document row per URL, and all requests
\* for one URL resolve to the same document id.
C5_OneDocumentPerUrl ==
    /\ \A u \in Urls : Len(SelectByUrl(u)) <= 1
    /\ \A p, q \in Procs :
        (pdf_url[p] = pdf_url[q] /\ document[p] # 0 /\ document[q] # 0)
            => document[p] = document[q]

\* two requests of the same document that both saw has_chunks = false and
\* both ran the pipeline to its end
Raced(p, q) ==
    /\ p # q
    /\ document[p] # 0
    /\ document[p] = document[q]
    /\ observed[p] = "false" /\ observed[q] = "false"
    /\ pc[p] \in {"questions", "done"} /\ pc[q] \in {"questions", "done"}
    /\ chunks[p] # <<>> /\ chunks[q] # <<>>

\* C6: nothing keeps two concurrent requests for the same not yet indexed
\* document from both seeing has_chunks = false; when both then run the
\* pipeline, the document ends with the same ordinal in two chunk rows, and
\* with two vectors for that ordinal when both upserts reached the index
\* under different ids.
C6_RaceLeavesDuplicates ==
    \A p, q \in Procs :
        Raced(p, q) =>
            /\ Cardinality(RowsWithOrdinal(document[p], 0)) >= 2
            /\ (/\ chunk_data[p][1].prefix = ""
                /\ chunk_data[q][1].prefix = ""
                /\ chunk_data[p][1] # chunk_data[q][1])
                   => Cardinality(VectorsWithOrdinal(document[p], 0)) >= 2

C6_Witness ==
    \E p, q \in Procs :
        /\ Raced(p, q)
        /\ Cardinality(RowsWithOrdinal(document[p], 0)) = 2
        /\ Cardinality(VectorsWithOrdinal(document[p], 0)) = 2

(***************************************************************************)
(* Properties of the fetch loop                                            *)
(***************************************************************************)
Range(f) == {f[i] : i \in DOMAIN f}

\* the sleeps the loop makes before attempt number n (n >= 1)
WaitsBefore(n) == [i \in 1..(n - 1) |-> 2 ^ (i - 1)]

\* every response the endpoint gave so far was a 503
AlwaysAnswers503 ==
    /\ history # <<>>
    /\ Range(responses) = {503}

\* C7: a fetch against an endpoint that answers every request with HTTP 503
\* makes exactly 3 attempts, 3 requests reach the endpoint, it then fails
\* with an upstream-failure error and the waits between attempts add up to
\* 1 + 2 = 3 seconds.
C7_RetryBound503 ==
    (fpc = "raised" /\ AlwaysAnswers503) =>
        /\ attemptsMade = 3
        /\ requestsSent = 3
        /\ fError \in {"RetryError", "HTTPError"}
        /\ slept = 3

C10_TerminalHTTPErrors ==
    \A i \in 1..Len(history) :
        history[i] = "HTTPError" =>
            /\ i = Len(history)
            /\ fpc = "raised"
            /\ attemptsMade = i
            /\ waits = WaitsBefore(i)
            /\ responses[i] = 404 => fError = "FileNotFoundError"
            /\ responses[i] = 403 => fError = "PermissionError"
            /\ responses[i] \notin {403, 404} => fError = "HTTPError"

C10_Witness ==
    /\ fpc = "raised"
    /\ history = <<"Timeout", "HTTPError">>
    /\ responses = <<0, 403>>
    /\ fError = "PermissionError"

\* C11: a fetch of a URL whose scheme is neither http nor https raises
\* ValueError (InvalidInput) before any network attempt: no call of
\* session.get, no request on the wire, no backoff sleep.
C11_InvalidSchemeNoNetwork ==
    furl = "ftp://c" =>
        /\ fpc \in {"start", "raised"}
        /\ fpc = "raised" => fError = "ValueError"
        /\ attemptsMade = 0
        /\ requestsSent = 0
        /\ waits = <<>>
        /\ slept = 0

C11_Witness ==
    /\ furl = "ftp://c"
    /\ fpc = "raised"
    /\ fError = "ValueError"
    /\ attemptsMade = 0

(***************************************************************************)
(* Properties of the vector component                                      *)
(***************************************************************************)
\* the call ran without the vector service: no index handle, or the call to
\* the service raised
Degraded(call) == ~call.handle \/ ~call.call_ok

\* C12: whenever the vector store is unavailable (no index handle since
\* construction, or the call to the store fails), search_similar_chunks
\* returns nothing and store_chunks returns exactly one placeholder id per
\* input chunk, prefixed "local" or "fallback"; the call returns, it does
\* not raise.
C12_DegradedModeReturns ==
    /\ (last.op = "store" /\ Degraded(last)) =>
            /\ Len(last.ids) = Len(last.chunk_list)
            /\ \A k \in DOMAIN last.ids : last.ids[k].prefix \in {"local", "fallback"}
    /\ (last.op = "search" /\ Degraded(last)) => last.matches = {}

C12_Witness ==
    /\ last.op = "store"
    /\ last.handle /\ ~last.call_ok
    /\ Len(last.chunk_list) = 2
    /\ Len(last.ids) = 2
    /\ last.ids[2].prefix = "fallback"

\* C13: create_index is attempted at most once; when construction ends
\* without an index handle the handle stays absent, every store_chunks
\* returns "local" placeholder ids, every search returns nothing, and no
\* call goes to the vector service, also while the service is up again.
C13_StaysDegraded ==
    /\ created <= 1
    /\ (ctor = "ready" /\ ~index[1]) =>
            /\ contacts = 0
            /\ vectors = {}
            /\ last.op = "store" =>
                    /\ Len(last.ids) = Len(last.chunk_list)
                    /\ \A k \in DOMAIN last.ids : last.ids[k].prefix = "local"
            /\ last.op = "search" => last.matches = {}

C13_Permanent ==
    /\ []C13_StaysDegraded
    /\ [][(ctor = "ready" /\ ~index[1]) => (ctor' = "ready" /\ ~index'[1])]_vars

C13_Witness ==
    /\ ctor = "ready"
    /\ ~index[1]
    /\ created = 1
    /\ service = "up"
    /\ last.op = "store"
    /\ last.call_ok
    /\ Len(last.ids) = 2
    /\ last.ids[1].prefix = "local"

\* C14: store_chunks returns exactly one id per input chunk, in input
\* order, in normal and in degraded mode; in normal mode the i-th id is
\* {document_id}_{i}_{suffix} and is the key under which the vector of chunk
\* i is stored with document id, ordinal i, the first 1000 characters of the
\* text and the full text.
C14_UpsertOrdering ==
    last.op = "store" =>
        /\ Len(last.ids) = Len(last.chunk_list)
        /\ \A k \in DOMAIN last.ids :
            /\ last.ids[k].chunk_index = k - 1
            /\ last.ids[k].document_id = last.document_id
            /\ ~Degraded(last) =>
                /\ last.ids[k].prefix = ""
                /\ \E v \in vectors : v.id = last.ids[k]
                /\ \A v \in vectors :
                    v.id = last.ids[k] =>
                        /\ v.document_id = last.document_id
                        /\ v.chunk_index = k - 1
                        /\ v.full_text = last.chunk_list[k]
                        /\ v.text.of = last.chunk_list[k]
                        /\ v.text.len <= 1000
                        /\ v.text.len = 1000 \/ v.text.len = TextLen(last.chunk_list[k])

C14_Witness ==
    /\ last.op = "store"
    /\ ~Degraded(last)
    /\ Len(last.ids) = 2
    /\ \E v \in vectors :
        /\ v.id = last.ids[1]
        /\ v.chunk_index = 0
        /\ v.text.len = 1000
        /\ TextLen(v.full_text) = 1200
    /\ \E v \in vectors : v.id = last.ids[2] /\ v.chunk_index = 1

\* C15: no two ids ever generated by store_chunks are equal, also not those
\* of repeated upserts of the same document and ordinal.
C15_IdsUnique == ~collision

(***************************************************************************)
(* Properties of the request handler                                       *)
(***************************************************************************)
\* the document a clause's answer was asked about
QueriedDocument(clause) ==
    user_queries[answer_rows[clause.answer_id].query_id].document_id

\* C16: every persisted clause references a chunk row that exists and
\* belongs to the document the question was asked about, also while several
\* documents are indexed in the vector store.
C16_ClausesOfQueriedDocument ==
    \A clause \in answer_clauses :
        \E k \in 1..Len(document_chunks) :
            /\ document_chunks[k].id = clause.chunk_id
            /\ document_chunks[k].document_id = QueriedDocument(clause)

\* the questions of the request of process p whose processing has begun
Attempted(p) ==
    {i \in DOMAIN questions[p] :
        i <= Len(answers[p]) +
             (IF \/ pc[p] \in {"search", "generate", "answer"}
                 \/ pc[p] = "failed" /\ failedAt[p] \in QuestionSteps
              THEN 1 ELSE 0)}

\* C17: when the processing of question i has failed, the questions after
\* it are attempted all the same: a request that has ended has attempted
\* every one of its questions.
C17_LaterQuestionsAttempted ==
    \A p \in Procs :
        (pc[p] = "failed" /\ failedAt[p] \in QuestionSteps) =>
            Attempted(p) = DOMAIN questions[p]

\* C18: a request that passed authentication ends with 200 or with 500; a
\* 200 response holds exactly one answer per question, the i-th answer
\* being the answer to the i-th question; no partial list is returned.
C18_CompleteOrError ==
    \A p \in Procs :
        pc[p] \in {"done", "failed"} =>
            /\ Response(p).status \in {200, 500}
            /\ Response(p).status = 200 =>
                    /\ Len(Response(p).answers) = Len(questions[p])
                    /\ \A i \in DOMAIN questions[p] :
                        /\ Response(p).answers[i].question = questions[p][i]
                        /\ Response(p).answers[i].kind \in {"generated", "fallback"}
            /\ Response(p).status = 500 => Response(p).answers = <<>>

C18_Witness ==
    /\ pc[1] = "done"
    /\ questions[1] = <<"q1", "q2">>
    /\ Response(1).status = 200
    /\ Len(Response(1).answers) = 2
    /\ Response(1).answers[1].question = "q1"
    /\ Response(1).answers[2].question = "q2"

\* C19: a failed language-model call never fails the request: the answer of
\* that question is the fallback string for the question, it is written to
\* the answers table and returned in its place, and the questions after it
\* are processed.
C19_LLMFailureFallsBack ==
    \A p \in Procs :
        /\ failedAt[p] # "generate_answer"
        /\ pc[p] = "answer" =>
                /\ answer_text[p].kind \in {"generated", "fallback"}
                /\ answer_text[p].question = questions[p][Len(answers[p]) + 1]
        /\ \A i \in DOMAIN answers[p] :
                /\ answers[p][i].question = questions[p][i]
                /\ \E k \in DOMAIN answer_rows :
                        /\ answer_rows[k].answer_text = answers[p][i]
                        /\ user_queries[answer_rows[k].query_id].query_text = questions[p][i]
        /\ pc[p] = "done" => Len(answers[p]) = Len(questions[p])

C19_Witness ==
    /\ pc[1] = "done"
    /\ Len(answers[1]) = 2
    /\ answers[1][1] = [kind |-> "fallback", question |-> "q1"]
    /\ answers[1][2].kind = "generated"
    /\ \E k \in DOMAIN answer_rows : answer_rows[k].answer_text.kind = "fallback"

\* C20: a request whose Authorization header is missing, does not start
\* with "Bearer " or carries another token than the secret is answered with
\* 401 and goes no further: no fetch, no document, no query.
C20_BadHeaderRejected ==
    \A p \in Procs :
        (pc[p] \notin {"idle", "auth"} /\ authorization[p] # <<"Bearer", "secret">>) =>
            /\ Response(p).status = 401
            /\ document[p] = 0
            /\ ~ran[p]

(***************************************************************************)
(* Properties of the chunker                                               *)
(***************************************************************************)
\* C21: every chunk chunk_text returns is at most 1000 characters long,
\* unless it is a single sentence that is longer than that by itself.
C21_ChunkBound ==
    tpc = "chunked" =>
        \A k \in DOMAIN text_chunks :
            \/ StrLen(text_chunks[k]) <= 1000
            \/ \E j \in DOMAIN sentences : text_chunks[k] = sentences[j]

\* the overlap tail of a chunk as the specification describes it: its last
\* 200 characters, cut forward to just after the first space inside them,
\* or all of them when they hold no space
TrimmedTail(chunk) ==
    LET tail == LastChars(chunk, 200)
        space == FindSpace(tail)
    IN  IF space = -1 THEN tail ELSE Drop(tail, space + 1)

\* chunk k begins with the trimmed tail of chunk k-1, followed by a space
\* and a sentence
SeamAt(k) ==
    LET prefix == TrimmedTail(text_chunks[k - 1])
        after == Drop(text_chunks[k], StrLen(prefix))
    IN  /\ Take(text_chunks[k], StrLen(prefix)) = prefix
        /\ \E j \in DOMAIN sentences :
                Take(after, 1 + StrLen(sentences[j])) = <<Spaces(1)>> \o sentences[j]

\* C22: every chunk but the first begins with the overlap tail of the chunk
\* before it (its last 200 characters cut forward to just after the first
\* space in them, the whole tail when it has no space), followed by the next
\* sentence.
C22_OverlapSeam ==
    tpc = "chunked" => \A k \in 2..Len(text_chunks) : SeamAt(k)

\* C23: a sentence longer than 1000 characters is a chunk of its own,
\* wherever it stands in the text: some chunk is exactly that sentence.
C23_OversizeSentenceAlone ==
    tpc = "chunked" =>
        \A j \in DOMAIN sentences :
            StrLen(sentences[j]) > 1000 =>
                \E k \in DOMAIN text_chunks : text_chunks[k] = sentences[j]

\* string c occurs in string t
IsSubstring(c, t) ==
    \E from \in 0..(StrLen(t) - StrLen(c)) : Take(Drop(t, from), StrLen(c)) = c

\* C24: every chunk is a contiguous span of the normalized text it was
\* produced from.
C24_ChunksAreSpans ==
    tpc = "chunked" => \A k \in DOMAIN text_chunks : IsSubstring(text_chunks[k], text)

\* C30: a normalized text of exactly 2300 characters is cut into exactly 3
\* chunks, the 2nd and the 3rd beginning with the trimmed 200-character
\* tail of the chunk before.
C30_Scenario2300 ==
    (tpc = "chunked" /\ StrLen(text) = 2300) =>
        /\ Len(text_chunks) = 3
        /\ SeamAt(2)
        /\ SeamAt(3)

(***************************************************************************)
(* Properties of the extraction and the normalization                      *)
(***************************************************************************)
\* the pages whose extraction works and yields more than blanks
ReadablePages == {k \in DOMAIN pages : pages[k].ok /\ Strip(pages[k].text) # <<>>}

\* C25: an unparseable byte stream and a PDF without pages fail as corrupt
\* input; a page whose extraction raises is skipped, so the extraction
\* succeeds when some page yields non-blank text; when no page does, it
\* fails with the no-text error.
C25_ExtractionFailures ==
    tpc \in {"failed", "extracted"} =>
        IF terror = "Invalid or corrupted PDF file"
        THEN tpc = "failed" /\ page_num = 0 /\ text = <<>>
        ELSE IF pages = <<>>
        THEN tpc = "failed" /\ terror = "PDF file appears to be empty or corrupted"
        ELSE IF ReadablePages # {}
        THEN tpc = "extracted" /\ terror = "none" /\ page_num = Len(pages)
        ELSE tpc = "failed" /\ terror = "No text could be extracted from the PDF"

C25_Witness ==
    /\ tpc = "extracted"
    /\ Len(pages) = 3
    /\ ~pages[1].ok
    /\ pages[2].ok /\ pages[2].text = <<Spaces(2)>>
    /\ ReadablePages = {3}
    /\ terror = "none"

\* a text in which every whitespace run is one space, no character outside
\* the allowed set and no run of more than three periods remains, and
\* that neither begins nor ends with whitespace
IsNormalized(s) ==
    /\ \A k \in DOMAIN s :
        /\ s[k].c \notin {"\n", "@"}
        /\ s[k].c = " " => s[k].n = 1
        /\ s[k].c = "." => s[k].n <= 3
        /\ (k < Len(s) /\ s[k].c = " ") => s[k + 1].c # " "
    /\ s # <<>> => (s[1].c # " " /\ s[Len(s)].c # " ")

\* C26: the text _clean_text returns is fully normalized, for every raw
\* text, and normalizing it again leaves it unchanged.
C26_FullyNormalized ==
    tpc = "cleaned" => (IsNormalized(text) /\ clean_text(text) = text)


(***************************************************************************)
(* Order of the steps of one request (ReqSpec).                            *)
(***************************************************************************)
\* the positions of the loop over the questions and of its outcome
QuestionPositions == {"questions", "search", "generate", "answer", "done", "failed"}

\* the chunk rows of the ingestion process p ran are all written
ChunkRowsWritten(p) ==
    /\ chunk_index[p] = Len(chunks[p])
    /\ \A k \in DOMAIN chunks[p] :
        \E r \in DOMAIN document_chunks :
            /\ document_chunks[r].document_id = document[p]
            /\ document_chunks[r].chunk_index = k - 1
            /\ document_chunks[r].pinecone_id = chunk_data[p][k]

\* C27: within one request the steps are strictly sequential. A query record
\* exists only once ingestion is over and every chunk row of it is written;
\* the query records follow the questions in input order, one at a time; and
\* the answer of question i is persisted before the query record of question
\* i+1 is created.
C27_StrictlySequential ==
    \A p \in Procs :
        pc[p] # "idle" =>
            LET n == Len(user_queries) IN
            /\ n > 0 =>
                /\ pc[p] \in QuestionPositions
                /\ pc[p] = "failed" => failedAt[p] \in QuestionSteps
                /\ ChunkRowsWritten(p)
            /\ n <= Len(answers[p]) + 1
            /\ \A k \in 1..n :
                /\ user_queries[k].query_text = questions[p][k]
                /\ user_queries[k].document_id = document[p]
            /\ \A k \in 1..(n - 1) :
                \E a \in DOMAIN answer_rows : answer_rows[a].query_id = user_queries[k].id
            /\ Len(answer_rows) <= n
            /\ \A a \in DOMAIN answer_rows :
                /\ answer_rows[a].query_id = user_queries[a].id
                /\ answer_rows[a].answer_text.question = questions[p][a]

\* a request that ingested two chunks and answered two questions
C27_Witness ==
    /\ pc[1] = "done"
    /\ Len(chunks[1]) = 2
    /\ chunk_index[1] = 2
    /\ Len(user_queries) = 2
    /\ Len(answer_rows) = 2

\* the request of process p has run an ingestion to its end
Ingested(p) ==
    /\ ran[p]
    /\ pc[p] \in QuestionPositions
    /\ pc[p] = "failed" => failedAt[p] \in QuestionSteps

\* C29: chunk order is preserved end to end. After a successful ingestion,
\* for every ordinal i there is a chunk row of the document with ordinal i
\* that holds the i-th chunk of the chunker and the i-th id store_chunks
\* returned; every vector stored under that id carries ordinal i and the same
\* text, and such a vector exists when the ids are those of an upsert.
C29_OrderEndToEnd ==
    \A p \in Procs :
        Ingested(p) =>
            /\ Len(chunk_data[p]) = Len(chunks[p])
            /\ \A k \in DOMAIN chunks[p] :
                /\ chunk_data[p][k].chunk_index = k - 1
                /\ \E r \in DOMAIN document_chunks :
                    /\ document_chunks[r].document_id = document[p]
                    /\ document_chunks[r].chunk_index = k - 1
                    /\ document_chunks[r].chunk_text = chunks[p][k]
                    /\ document_chunks[r].pinecone_id = chunk_data[p][k]
                /\ \A v \in vectors :
                    v.id = chunk_data[p][k] =>
                        /\ v.document_id = document[p]
                        /\ v.chunk_index = k - 1
                        /\ v.full_text = chunks[p][k]
                /\ chunk_data[p][k].prefix = "" =>
                    \E v \in vectors : v.id = chunk_data[p][k]

\* an ingestion of two chunks whose vectors were upserted
C29_Witness ==
    /\ Ingested(1)
    /\ Len(chunks[1]) = 2
    /\ \A k \in 1..2 :
        /\ chunk_data[1][k].prefix = ""
        /\ \E v \in vectors : v.id = chunk_data[1][k] /\ v.chunk_index = k - 1
        /\ \E r \in DOMAIN document_chunks :
            /\ document_chunks[r].pinecone_id = chunk_data[1][k]
            /\ document_chunks[r].chunk_text = chunks[1][k]

(***************************************************************************)
(* Concurrent requests of one server process (LoopSpec).                   *)
(***************************************************************************)
\* the positions at which a handler waits for a collaborator: the database,
\* the download with its backoff waits, the embedding and the vector store,
\* the language model
WaitingPositions == {"insert", "has_chunks", "extract", "store", "persist", "questions"}

\* C28: suspension points do not block other requests. While the request of
\* one task waits for a download, a backoff wait, an embedding, a vector
\* store call, a language model call or a persistence call, another request
\* that has been accepted can take its next step.
C28_WaitsDoNotBlock ==
    \A a, b \in Procs :
        (a # b /\ pc[a] \in WaitingPositions /\ pc[b] = "select") => ENABLED LoopStep(b)

(***************************************************************************)
(* Authentication (ReqSpec).                                               *)
(***************************************************************************)
\* C31: the bearer credential is compared by exact match. Once the header
\* has been checked, the request has passed if and only if its Authorization
\* header is exactly "Bearer " followed by the configured secret; every other
\* header is rejected with 401.
C31_ExactMatch ==
    \A p \in Procs :
        pc[p] \notin {"idle", "auth"} =>
            (pc[p] = "rejected" <=> authorization[p] # <<"Bearer", BEARER_TOKEN>>)

(***************************************************************************)
(* Lifecycle of the document and chunk records (Spec).                     *)
(***************************************************************************)
\* C32: the per-document state only moves forward. No step updates or
\* deletes a document row or a chunk row: every row that exists keeps its
\* place and its fields (id, URL, document, ordinal, text, vector id) in the
\* next state, so a document that has chunk rows has them ever after.
C32_RecordsOnlyAdded ==
    [][/\ Len(documents') >= Len(documents)
       /\ \A k \in DOMAIN documents : documents'[k] = documents[k]
       /\ Len(document_chunks') >= Len(document_chunks)
       /\ \A k \in DOMAIN document_chunks : document_chunks'[k] = document_chunks[k]
       /\ \A d \in DOMAIN documents : ChunksOf(d) \subseteq ChunksOf(d)']_vars

\* a later request for a document that already had chunk rows has ended
C32_Witness ==
    \E p \in Procs :
        /\ pc[p] \in {"done", "failed"}
        /\ afterSuccess[p]
        /\ ChunksOf(document[p]) # {}

\* the request of process p has run the ingestion pipeline to its end
PipelineCompleted(p) ==
    /\ ran[p]
    /\ \/ pc[p] \in {"questions", "done"}
       \/ pc[p] = "failed" /\ failedAt[p] = "questions"

\* C33: whenever the ingestion step of a request completes without error,
\* the document has at least one chunk row afterwards, so that a following
\* has-chunks check answers true and no later request repeats the fetch.
C33_CompletedMeansIngested ==
    \A p \in Procs :
        PipelineCompleted(p) => has_chunks(document[p], TRUE)

\* C34: a persistence error inside the has-chunks check is not propagated.
\* The request goes on into the pipeline and never fails at the check; when
\* the pipeline has completed, the fetch has run and a row for each ordinal
\* 0..N-1 with the id store_chunks returned is persisted, also when the
\* document had chunk rows before.
C34_CheckErrorRunsPipeline ==
    \A p \in Procs :
        observed[p] = "error" =>
            /\ pc[p] \in {"extract", "store", "persist", "questions", "done", "failed"}
            /\ pc[p] = "failed" =>
                failedAt[p] \in {"extract_text_from_url", "create_document_chunk", "questions"}
            /\ pc[p] \in {"store", "persist", "questions", "done"} => ran[p]
            /\ pc[p] \in {"questions", "done"} =>
                \A k \in DOMAIN chunks[p] :
                    \E r \in ChunksOf(document[p]) :
                        /\ document_chunks[r].chunk_index = k - 1
                        /\ document_chunks[r].pinecone_id = chunk_data[p][k]

\* a request whose check raised although the document had chunk rows has
\* ingested it a second time
C34_Witness ==
    \E p \in Procs :
        /\ observed[p] = "error"
        /\ afterSuccess[p]
        /\ pc[p] = "done"
        /\ Len(chunks[p]) >= 1
        /\ Cardinality(ChunksOf(document[p])) > Len(chunks[p])

(***************************************************************************)
(* Agreement of the database and the vector index (Spec).                  *)
(***************************************************************************)
\* ids of the vectors stored for a document
VectorIdsOf(d) == {v.id : v \in {x \in vectors : x.document_id = d}}

\* ids in the chunk rows of a document
RowIdsOf(d) == {document_chunks[r].pinecone_id : r \in ChunksOf(d)}

\* no id comes from a store_chunks call that found the vector store
\* unavailable or failing
NoVectorStoreFailure ==
    /\ \A p \in Procs : index[p]
    /\ \A r \in DOMAIN document_chunks : document_chunks[r].pinecone_id.prefix = ""

\* C35: persistence and vector index agree. If the vector store has not
\* failed, then whenever no request is in flight the vectors stored for a
\* document are exactly those whose ids are in its chunk rows.
C35_StoresAgree ==
    (NoVectorStoreFailure /\ \A p \in Procs : pc[p] = "idle") =>
        \A d \in DOMAIN documents : VectorIdsOf(d) = RowIdsOf(d)

\* the chunk rows of document d all carry placeholder ids: the document was
\* ingested while the vector store was unavailable
PlaceholderOnly(d) ==
    /\ ChunksOf(d) # {}
    /\ \A r \in ChunksOf(d) : document_chunks[r].pinecone_id.prefix \in {"local", "fallback"}

\* C36: a document ingested while the vector store was unavailable counts as
\* ingested. A later request for its URL, begun after that ingestion had
\* completed, never upserts vectors for it: the index holds no vector of the
\* document, so none of its chunks can appear in a query result.
C36_NeverIndexedLater ==
    \A p \in Procs :
        (afterSuccess[p] /\ document[p] # 0 /\ PlaceholderOnly(document[p])) =>
            VectorIdsOf(document[p]) = {}

(***************************************************************************)
(* Requests with an invalid URL, one after the other (LoopSpec).           *)
(***************************************************************************)
\* the document rows of a URL
RowsOfUrl(url) == {k \in DOMAIN documents : documents[k].url = url}

\* the request of task p was rejected for the scheme of its URL
RejectedForScheme(p) ==
    /\ pc[p] = "failed"
    /\ failedAt[p] = "extract_text_from_url"
    /\ pdf_url[p] \notin {"https://a", "https://b"}

\* C37: the document record is resolved or created before the URL is
\* validated. A request rejected for the scheme of its URL has made no fetch
\* and leaves a document row for the URL, with no chunk row; a repeat of
\* the request fails in the same way and finds that row: the URL never has
\* a second one.
C37_RowBeforeValidation ==
    \A p \in Procs :
        RejectedForScheme(p) =>
            /\ ~ran[p]
            /\ document[p] \in RowsOfUrl(pdf_url[p])
            /\ Cardinality(RowsOfUrl(pdf_url[p])) = 1
            /\ ChunksOf(document[p]) = {}

\* the second request for the invalid URL has been rejected
C37_Witness ==
    \E p \in Procs :
        /\ RejectedForScheme(p)
        /\ nreq = 2
        /\ \A q \in Procs \ {p} : pc[q] = "idle"
        /\ cycles[pdf_url[p]] = 0
        /\ Len(documents) = 1

(***************************************************************************)
(* What a failing request leaves behind (ReqSpec).                         *)
(***************************************************************************)
\* C38: a failing request is not rolled back. When the request fails at a
\* question after k questions were answered, the caller receives only the
\* error (500, no answers), while the chunk rows and the vectors of the
\* request's ingestion and the query and answer records of the k answered
\* questions stay persisted; the failing question has a query record unless
\* its creation was what failed, and that record can be without an answer.
C38_NoRollback ==
    \A p \in Procs :
        (pc[p] = "failed" /\ failedAt[p] \in QuestionSteps) =>
            LET k == Len(answers[p]) IN
            /\ Response(p) = [status |-> 500, answers |-> <<>>]
            /\ Len(user_queries) = IF failedAt[p] = "create_user_query" THEN k ELSE k + 1
            /\ Len(answer_rows) \in {k, k + 1}
            /\ \A i \in 1..k :
                /\ user_queries[i].query_text = questions[p][i]
                /\ answer_rows[i].query_id = user_queries[i].id
                /\ answer_rows[i].answer_text = answers[p][i]
            /\ ChunkRowsWritten(p)
            /\ \A i \in DOMAIN chunks[p] :
                chunk_data[p][i].prefix = "" => \E v \in vectors : v.id = chunk_data[p][i]

\* the second question failed after its query record was written: the
\* ingestion and the first question's records are there, the second query
\* has no answer
C38_Witness ==
    /\ pc[1] = "failed"
    /\ failedAt[1] = "create_answer_with_clauses"
    /\ Len(answers[1]) = 1
    /\ Len(user_queries) = 2
    /\ Len(answer_rows) = 1
    /\ Len(chunks[1]) = 2
    /\ \A i \in 1..2 : \E v \in vectors : v.id = chunk_data[1][i]

(***************************************************************************)
(* What the chunker keeps of the text (ChunkSpec).                         *)
(***************************************************************************)
\* string c occurs in string t from the first character of one of its runs
\* on: a sentence begins with the first character of a word, and that is
\* where a run of word characters begins
OccursIn(c, t) ==
    \E r \in DOMAIN t : Take(Drop(t, StrLen(SubSeq(t, 1, r - 1))), StrLen(c)) = c

\* the chunks in which sentence j of the text occurs whole
ChunksWith(j) == {k \in DOMAIN text_chunks : OccursIn(sentences[j], text_chunks[k])}

\* the first of them
FirstChunkWith(j) == CHOOSE k \in ChunksWith(j) : \A m \in ChunksWith(j) : k <= m

IsSuffix(a, b) == StrLen(a) <= StrLen(b) /\ Drop(b, StrLen(b) - StrLen(a)) = a

\* C40: for every configured overlap length, 0 included, whenever a chunk is
\* closed the overlap seed put in front of the next sentence is a suffix of
\* the closed chunk and is at most overlap_len characters long.
C40_SeedIsShortSuffix ==
    [][(tpc' = "sentences" /\ Len(text_chunks') = Len(text_chunks) + 1) =>
        LET closed == text_chunks'[Len(text_chunks')]
            sentence == sentences[sentence_num']
            seed == Take(current_chunk', StrLen(current_chunk') - StrLen(sentence) - 1)
        IN  /\ IsSuffix(seed, closed)
            /\ StrLen(seed) <= overlap_len]_vars

====
